---- MODULE Spec2Model ----
(***************************************************************************)
(* pslmap-rs: the target specification resolver (src/src/tp.rs) and the    *)
(* scan result aggregators (src/src/hd.rs, src/src/ps.rs, src/src/od.rs),  *)
(* each called directly; the program itself, main of src/src/main.rs with  *)
(* the port parser, the resolver and the two scans that main.rs carries    *)
(* and main calls; and the resolver of src/src/target.rs, whose text is    *)
(* that of main.rs's.  The parsers and resolvers of main.rs and target.rs  *)
(* are called the earlier ones below.                                      *)
(*                                                                         *)
(* A string is a sequence of one-character strings.  A call that can panic *)
(* returns a record [ok, val, err]: ok = FALSE is the panic, err names it. *)
(* An IPv4 address is its 4 octets, an IPv6 address its 8 groups of 16     *)
(* bits, most significant first, so that no number exceeds 65535.          *)
(***************************************************************************)
EXTENDS Integers, Sequences, FiniteSets, TLC

VARIABLES
    port_pieces,   \* the port option as the user composed it, piece by piece
    args_ports,    \* --ports: [some, val], val the string handed to the parser
    ports_ret,     \* what a call of TargetParser::ports_parser returned
    older_ret,     \* what the earlier port parsers returned: [main, target]
    addr_pieces,   \* the address tokens the user composed, in input order
    args_target,   \* --target: the address string ("" when not given)
    file,          \* --filename: [given, readable, lines, broken]
    args_ipv6,     \* --ipv6
    args_timeout,  \* --timeout, or the timeout an aggregator is called with: an f64
    dns,           \* the DNS collaborator: domain name -> answer
    IPV6_FIRST,    \* the process-wide address family preference
    pc,            \* the position of main, or of the call that is made
    targets,       \* main's target list
    err,           \* the panic message when pc = "panicked"
    records,       \* the record sequence the scanning engine returned
    scan_mode,     \* which function scans: "ping", "mac", "tcp", "udp", "os" of
                   \* hd.rs, ps.rs, od.rs; "pingscan", "macscan" of main.rs
    printed,       \* what is written to the output before the report
    info,          \* the report body: a sequence of lines
    tail,          \* the report tail: [words, total, up]
    mutex,         \* the mutex around IPV6_FIRST: [held, poisoned, acquired]
    resolver,      \* which of the repository's resolvers runs: "tp", "main", "target"
    todo           \* the address tokens the resolver still has to resolve

inVars  == <<port_pieces, args_ports, addr_pieces, args_target, file, args_ipv6,
             args_timeout, dns>>
resVars == <<IPV6_FIRST, targets, err>>
aggVars == <<records, scan_mode, printed, info, tail>>
lockVars == <<mutex, resolver, todo>>
vars    == <<inVars, ports_ret, older_ret, resVars, pc, aggVars, lockVars>>

-----------------------------------------------------------------------------
(* Results and options *)

Ok(v)    == [ok |-> TRUE, val |-> v, err |-> ""]
Panic(m) == [ok |-> FALSE, val |-> <<>>, err |-> m]
None     == [some |-> FALSE, val |-> <<>>]
Some(v)  == [some |-> TRUE, val |-> v]

-----------------------------------------------------------------------------
(* Strings *)

Digits    == <<"0", "1", "2", "3", "4", "5", "6", "7", "8", "9">>
HexLower  == <<"0", "1", "2", "3", "4", "5", "6", "7", "8", "9", "a", "b", "c", "d", "e", "f">>
HexUpper  == <<"0", "1", "2", "3", "4", "5", "6", "7", "8", "9", "A", "B", "C", "D", "E", "F">>
LowerCase == <<"a", "b", "c", "d", "e", "f", "g", "h", "i", "j", "k", "l", "m",
               "n", "o", "p", "q", "r", "s", "t", "u", "v", "w", "x", "y", "z">>
UpperCase == <<"A", "B", "C", "D", "E", "F", "G", "H", "I", "J", "K", "L", "M",
               "N", "O", "P", "Q", "R", "S", "T", "U", "V", "W", "X", "Y", "Z">>

Range(s) == {s[i] : i \in DOMAIN s}

IsDigit(c)    == c \in Range(Digits)
IsHexDigit(c) == c \in Range(HexLower) \cup Range(HexUpper)
DigitVal(c)   == (CHOOSE i \in DOMAIN Digits : Digits[i] = c) - 1
HexVal(c)     == IF c \in Range(HexLower)
                 THEN (CHOOSE i \in DOMAIN HexLower : HexLower[i] = c) - 1
                 ELSE (CHOOSE i \in DOMAIN HexUpper : HexUpper[i] = c) - 1

\* char::is_whitespace, the characters of the Unicode property White_Space: U+0009
\* to U+000D (tab, line feed, vertical tab, form feed, carriage return), the space,
\* U+0085, U+00A0, U+1680, U+2000 to U+200A, U+2028, U+2029, U+202F, U+205F and
\* U+3000.  A character that cannot be written inside a string is named by its code
\* point.
IsWhitespace(c) == c \in {" ", "\t", "\n", "", "\f", "\r", "", " ", " ",
                        "U+2000", "U+2001", "U+2002", "U+2003", "U+2004", "U+2005",
                        "U+2006", "U+2007", "U+2008", "U+2009", "U+200A",
                        "U+2028", "U+2029", "U+202F", "U+205F", "U+3000"}

Contains(s, c) == \E i \in DOMAIN s : s[i] = c

\* str::trim
RECURSIVE TrimStart(_)
TrimStart(s) == IF s # <<>> /\ IsWhitespace(Head(s)) THEN TrimStart(Tail(s)) ELSE s
RECURSIVE TrimEnd(_)
TrimEnd(s) ==
    IF s # <<>> /\ IsWhitespace(s[Len(s)]) THEN TrimEnd(SubSeq(s, 1, Len(s) - 1)) ELSE s
Trim(s) == TrimEnd(TrimStart(s))

\* str::split on a one-character pattern: n separators give n + 1 pieces
RECURSIVE SplitFrom(_, _, _)
SplitFrom(s, c, cur) ==
    IF s = <<>> THEN <<cur>>
    ELSE IF Head(s) = c THEN <<cur>> \o SplitFrom(Tail(s), c, <<>>)
    ELSE SplitFrom(Tail(s), c, Append(cur, Head(s)))
Split(s, c) == SplitFrom(s, c, <<>>)

\* .filter(|x| x.trim().len() > 0).map(|x| x.trim()) over the pieces of a split
TrimmedNonEmpty(pieces) ==
    LET kept == SelectSeq(pieces, LAMBDA x : Len(Trim(x)) > 0)
    IN  [i \in DOMAIN kept |-> Trim(kept[i])]

\* str::to_uppercase and str::to_lowercase on ASCII
UpperChar(c) ==
    IF c \in Range(LowerCase)
    THEN UpperCase[CHOOSE i \in DOMAIN LowerCase : LowerCase[i] = c] ELSE c
LowerChar(c) ==
    IF c \in Range(UpperCase)
    THEN LowerCase[CHOOSE i \in DOMAIN UpperCase : UpperCase[i] = c] ELSE c
ToUppercase(s) == [i \in DOMAIN s |-> UpperChar(s[i])]
ToLowercase(s) == [i \in DOMAIN s |-> LowerChar(s[i])]

RECURSIVE Flatten(_)
Flatten(ss) == IF ss = <<>> THEN <<>> ELSE Head(ss) \o Flatten(Tail(ss))

\* the pieces joined by a separator string
RECURSIVE Join(_, _)
Join(ss, sep) ==
    IF ss = <<>> THEN <<>>
    ELSE IF Len(ss) = 1 THEN ss[1]
    ELSE ss[1] \o sep \o Join(Tail(ss), sep)

\* the decimal digits of a natural number, as the user types them
RECURSIVE Dec(_)
Dec(n) == IF n < 10 THEN <<Digits[n + 1]>> ELSE Append(Dec(n \div 10), Digits[(n % 10) + 1])

\* the hexadecimal digits of a natural number
RECURSIVE Hex(_)
Hex(n) == IF n < 16 THEN <<HexLower[n + 1]>> ELSE Append(Hex(n \div 16), HexLower[(n % 16) + 1])

-----------------------------------------------------------------------------
(* Number parsing: <u16 as FromStr>::from_str *)

U16Max == 65535

\* the digits read left to right with a checked multiply-add
RECURSIVE ParseDigits(_, _, _)
ParseDigits(s, acc, max) ==
    IF s = <<>> THEN Ok(acc)
    ELSE IF ~IsDigit(Head(s)) THEN Panic("invalid digit")
    ELSE IF acc * 10 + DigitVal(Head(s)) > max THEN Panic("number too large")
    ELSE ParseDigits(Tail(s), acc * 10 + DigitVal(Head(s)), max)

\* an empty string, a lone sign and a '-' are errors; one leading '+' is accepted
ParseU16(s) ==
    IF s = <<>> THEN Panic("empty")
    ELSE IF Head(s) = "+"
         THEN IF Len(s) = 1 THEN Panic("invalid digit") ELSE ParseDigits(Tail(s), 0, U16Max)
    ELSE ParseDigits(s, 0, U16Max)

-----------------------------------------------------------------------------
(* TargetParser::ports_parser, src/src/tp.rs *)

\* start..=end
RECURSIVE Upto(_, _)
Upto(a, b) == IF a > b THEN <<>> ELSE <<a>> \o Upto(a + 1, b)

\* a variant of PortsOfSegment whose range stops before its end
PortsOfSegment_ExclusiveEnd(ps) ==
    IF Contains(ps, "-")
    THEN LET range_split == TrimmedNonEmpty(Split(ps, "-"))
         IN  IF Len(range_split) = 2
             THEN LET start == ParseU16(range_split[1])
                      end   == ParseU16(range_split[2])
                  IN  IF ~start.ok \/ ~end.ok THEN Panic("convert to u16 failed")
                      ELSE IF start.val < end.val THEN Ok(Upto(start.val, end.val - 1))
                      ELSE Panic("(start) >= (end)")
             ELSE Ok(<<>>)
    ELSE LET p == ParseU16(ps)
         IN  IF p.ok THEN Ok(<<p.val>>) ELSE Panic("convert to u16 failed")

\* a variant of PortsOfSegment that accepts start >= end, swapping the bounds
PortsOfSegment_SwapBounds(ps) ==
    IF Contains(ps, "-")
    THEN LET range_split == TrimmedNonEmpty(Split(ps, "-"))
         IN  IF Len(range_split) = 2
             THEN LET start == ParseU16(range_split[1])
                      end   == ParseU16(range_split[2])
                  IN  IF ~start.ok \/ ~end.ok THEN Panic("convert to u16 failed")
                      ELSE IF start.val < end.val THEN Ok(Upto(start.val, end.val))
                      ELSE Ok(Upto(end.val, start.val))
             ELSE Ok(<<>>)
    ELSE LET p == ParseU16(ps)
         IN  IF p.ok THEN Ok(<<p.val>>) ELSE Panic("convert to u16 failed")

\* one pass of the body of `for ps in ports_split`: the ports this segment pushes
PortsOfSegment(ps) ==
    IF Contains(ps, "-")
    THEN LET range_split == TrimmedNonEmpty(Split(ps, "-"))
         IN  IF Len(range_split) = 2
             THEN LET start == ParseU16(range_split[1])
                      end   == ParseU16(range_split[2])
                  IN  IF ~start.ok THEN Panic("convert to u16 failed")
                      ELSE IF ~end.ok THEN Panic("convert to u16 failed")
                      ELSE IF start.val < end.val THEN Ok(Upto(start.val, end.val))
                      ELSE Panic("(start) >= (end)")
             ELSE Ok(<<>>)
    ELSE LET p == ParseU16(ps)
         IN  IF p.ok THEN Ok(<<p.val>>) ELSE Panic("convert to u16 failed")

\* the loop over ports_split: the first panic ends it
RECURSIVE PortsLoop(_, _)
PortsLoop(ports_split, ret) ==
    IF ports_split = <<>> THEN Ok(ret)
    ELSE LET r == PortsOfSegment(Head(ports_split))
         IN  IF r.ok THEN PortsLoop(Tail(ports_split), ret \o r.val) ELSE r

PortsSplit(ports) ==
    IF Contains(ports, ",") THEN TrimmedNonEmpty(Split(ports, ",")) ELSE <<ports>>

\* a variant of ports_parser that refuses a blank port string
ports_parser_BlankFails(ports) ==
    IF ~ports.some THEN Ok(<<>>)
    ELSE IF Len(Trim(ports.val)) = 0 THEN Panic("convert to u16 failed")
    ELSE PortsLoop(PortsSplit(ports.val), <<>>)

ports_parser(ports) ==
    IF ~ports.some THEN Ok(<<>>)
    ELSE IF Len(Trim(ports.val)) = 0 THEN Ok(<<>>)
    ELSE PortsLoop(PortsSplit(ports.val), <<>>)

-----------------------------------------------------------------------------
(* The two earlier port parsers: fn ports_parser of src/src/main.rs and the  *)
(* closure ports_parser of src/src/target.rs.  Both take the port string and *)
(* return an Option; their text is the same, statement by statement.         *)

\* .filter(|x| x.trim().len() == 0).map(|x| x.trim()) over the pieces of a split
TrimmedEmpty(pieces) ==
    LET kept == SelectSeq(pieces, LAMBDA x : Len(Trim(x)) = 0)
    IN  [i \in DOMAIN kept |-> Trim(kept[i])]

\* one pass of the body of `for ps in ports_split` of the earlier parsers
OlderPortsOfSegment(ps) ==
    IF Contains(ps, "-")
    THEN LET range_split == TrimmedEmpty(Split(ps, "-"))
         IN  IF Len(range_split) = 2
             THEN LET start == ParseU16(range_split[1])
                      end   == ParseU16(range_split[2])
                  IN  IF ~start.ok THEN Panic("convert to u16 failed")
                      ELSE IF ~end.ok THEN Panic("convert to u16 failed")
                      ELSE IF start.val < end.val THEN Ok(Upto(start.val, end.val))
                      ELSE Panic("(start) >= (end)")
             ELSE Ok(<<>>)
    ELSE LET p == ParseU16(ps)
         IN  IF p.ok THEN Ok(<<p.val>>) ELSE Panic("convert to u16 failed")

RECURSIVE OlderPortsLoop(_, _)
OlderPortsLoop(ports_split, ret) ==
    IF ports_split = <<>> THEN Ok(Some(ret))
    ELSE LET r == OlderPortsOfSegment(Head(ports_split))
         IN  IF r.ok THEN OlderPortsLoop(Tail(ports_split), ret \o r.val) ELSE r

\* fn ports_parser(ports: &str) -> Option<Vec<u16>>, src/src/main.rs
main_ports_parser(ports) ==
    IF Len(Trim(ports)) = 0 THEN Ok(None)
    ELSE OlderPortsLoop(TrimmedEmpty(Split(ports, ",")), <<>>)

\* the closure ports_parser of TargetParser::parser, src/src/target.rs
target_ports_parser(ports) ==
    IF Len(Trim(ports)) = 0 THEN Ok(None)
    ELSE OlderPortsLoop(TrimmedEmpty(Split(ports, ",")), <<>>)

-----------------------------------------------------------------------------
(* Addresses: std::net::Ipv4Addr, Ipv6Addr, IpAddr *)

V4(g) == [v |-> 4, g |-> g]
V6(g) == [v |-> 6, g |-> g]

AllOk(rs) == \A i \in DOMAIN rs : rs[i].ok
Vals(rs)  == [i \in DOMAIN rs |-> rs[i].val]

\* one octet: 1 to 3 decimal digits, no leading zero on more than one digit, at most 255
ParseOctet(s) ==
    IF Len(s) = 0 \/ Len(s) > 3 THEN Panic("invalid octet")
    ELSE IF Len(s) > 1 /\ Head(s) = "0" THEN Panic("invalid octet")
    ELSE ParseDigits(s, 0, 255)

\* Ipv4Addr::from_str: exactly four octets separated by '.'
ParseIpv4(s) ==
    LET parts  == Split(s, ".")
        octets == [i \in DOMAIN parts |-> ParseOctet(parts[i])]
    IN  IF Len(parts) = 4 /\ AllOk(octets) THEN Ok(Vals(octets))
        ELSE Panic("invalid IPv4 address syntax")

RECURSIVE ParseHexDigits(_, _)
ParseHexDigits(s, acc) ==
    IF s = <<>> THEN Ok(acc)
    ELSE IF ~IsHexDigit(Head(s)) THEN Panic("invalid digit")
    ELSE ParseHexDigits(Tail(s), acc * 16 + HexVal(Head(s)))

\* one group: 1 to 4 hexadecimal digits
ParseGroup(s) ==
    IF Len(s) = 0 \/ Len(s) > 4 THEN Panic("invalid group") ELSE ParseHexDigits(s, 0)

\* the groups of a run "g:g:g" (none for the empty run)
ParseGroups(s) ==
    IF s = <<>> THEN <<>>
    ELSE LET parts == Split(s, ":") IN [i \in DOMAIN parts |-> ParseGroup(parts[i])]

Zeros(n) == [i \in 1..n |-> 0]

\* the two groups a dotted IPv4 address stands for
V4Groups(ip) ==
    IF ip.ok THEN <<Ok(ip.val[1] * 256 + ip.val[2]), Ok(ip.val[3] * 256 + ip.val[4])>>
    ELSE <<Panic("invalid IPv4 tail")>>

\* the two groups of a dotted IPv4 address that ends the text
ParseV4Tail(s) == V4Groups(ParseIpv4(s))

\* the groups of the parts of a run that ends the text: its last part may be a
\* dotted IPv4 address
GroupsWithLast(front, last) ==
    [i \in DOMAIN front |-> ParseGroup(front[i])]
        \o (IF Contains(last, ".") THEN ParseV4Tail(last) ELSE <<ParseGroup(last)>>)

GroupsOfParts(parts) ==
    GroupsWithLast(SubSeq(parts, 1, Len(parts) - 1), parts[Len(parts)])

\* the groups of a run that ends the text (none for the empty run)
ParseGroupsToEnd(s) ==
    IF s = <<>> THEN <<>> ELSE GroupsOfParts(Split(s, ":"))

\* the place of the first "::" of the text, 0 when it has none
FirstDouble(s) ==
    LET dbl == {i \in 1..(Len(s) - 1) : s[i] = ":" /\ s[i + 1] = ":"}
    IN  IF dbl = {} THEN 0 ELSE CHOOSE i \in dbl : \A j \in dbl : i <= j

\* the address of the groups before and after the "::", or of the eight groups
\* of a text without one
Ipv6Of(whole, hd, tl) ==
    IF /\ AllOk(hd) /\ AllOk(tl)
       /\ (IF whole THEN Len(hd) + Len(tl) = 8 ELSE Len(hd) + Len(tl) <= 7)
    THEN Ok(Vals(hd) \o Zeros(8 - Len(hd) - Len(tl)) \o Vals(tl))
    ELSE Panic("invalid IPv6 address syntax")

Ipv6From(s, at) ==
    Ipv6Of(at = 0,
           ParseGroups(SubSeq(s, 1, at - 1)),
           ParseGroupsToEnd(IF at = 0 THEN s ELSE SubSeq(s, at + 2, Len(s))))

\* Ipv6Addr::from_str: eight groups, or fewer around one "::"; the last two groups
\* may be written as a dotted IPv4 address
ParseIpv6(s) == Ipv6From(s, FirstDouble(s))

\* tuples of equal length, compared from the most significant group
RECURSIVE LexLess(_, _)
LexLess(x, y) ==
    IF x = <<>> THEN FALSE
    ELSE IF Head(x) # Head(y) THEN Head(x) < Head(y)
    ELSE LexLess(Tail(x), Tail(y))

\* Ord for IpAddr: every V4 before every V6, then numerically
AddrLess(a, b) == IF a.v # b.v THEN a.v < b.v ELSE LexLess(a.g, b.g)

GroupMax(a) == IF a.v = 4 THEN 255 ELSE 65535

\* the next address: add one with carry
RECURSIVE SuccGroups(_, _)
SuccGroups(g, max) ==
    IF g = <<>> THEN <<>>
    ELSE IF g[Len(g)] < max THEN [g EXCEPT ![Len(g)] = @ + 1]
    ELSE Append(SuccGroups(SubSeq(g, 1, Len(g) - 1), max), 0)
SuccAddr(a) == [a EXCEPT !.g = SuccGroups(a.g, GroupMax(a))]

\* the addresses start, start + 1, ..., end of a pool (start <= end)
RECURSIVE AddrsFromTo(_, _)
AddrsFromTo(start, end) ==
    IF start = end THEN <<start>> ELSE <<start>> \o AddrsFromTo(SuccAddr(start), end)

\* subnetwork::CrossIpv4Pool::new / CrossIpv6Pool::new and the pool's iteration:
\* an error when start > end, otherwise every address from start to end inclusive
CrossPool(start, end) ==
    IF AddrLess(end, start) THEN Panic("get cross pool failed")
    ELSE Ok(AddrsFromTo(start, end))

RECURSIVE Pow2(_)
Pow2(n) == IF n = 0 THEN 1 ELSE 2 * Pow2(n - 1)

\* the first and the last address of the block of `a` under a prefix length
BlockEnd(a, prefix, last) ==
    LET w == IF a.v = 4 THEN 8 ELSE 16
        kept(i) == IF prefix - w * (i - 1) < 0 THEN 0
                   ELSE IF prefix - w * (i - 1) > w THEN w
                   ELSE prefix - w * (i - 1)
        m(i) == Pow2(w - kept(i))
    IN  [a EXCEPT !.g = [i \in DOMAIN a.g |->
            ((a.g[i] \div m(i)) * m(i)) + (IF last THEN m(i) - 1 ELSE 0)]]

-----------------------------------------------------------------------------
(* pistol::Target *)

\* Target::new(addr, ports): no origin
TargetNew(addr, ports) == [addr |-> addr, ports |-> ports, origin |-> None]

WithOrigin(addrs, ports, origin) ==
    [i \in DOMAIN addrs |-> [addr |-> addrs[i], ports |-> ports, origin |-> Some(origin)]]

\* Target::from_subnet(subnet, ports): "addr/prefix", every address of the block,
\* each with the subnet as origin
FromSubnet(subnet, ports) ==
    LET parts == Split(subnet, "/")
    IN  IF Len(parts) # 2 THEN Panic("get subnet target failed")
        ELSE LET is6  == Contains(parts[1], ":")
                 ip   == IF is6 THEN ParseIpv6(parts[1]) ELSE ParseIpv4(parts[1])
                 plen == ParseDigits(parts[2], 0, IF is6 THEN 128 ELSE 32)
             IN  IF ~ip.ok \/ ~plen.ok \/ parts[2] = <<>> THEN Panic("get subnet target failed")
                 ELSE LET a == IF is6 THEN V6(ip.val) ELSE V4(ip.val)
                      IN  Ok(WithOrigin(AddrsFromTo(BlockEnd(a, plen.val, FALSE),
                                                    BlockEnd(a, plen.val, TRUE)),
                                        ports, subnet))

-----------------------------------------------------------------------------
(* The TLD registry, src/src/tp.rs get_all_tlds *)

\* db/tlds-alpha-by-domain.txt: a '#' comment line, then one upper-case label a line
tlds_txt ==
    << <<"#", " ", "V", "e", "r", "s", "i", "o", "n">>,
       <<"C", "O", "M">>,
       <<"N", "E", "T">> >>

RECURSIVE TldsOfLines(_)
TldsOfLines(lines) ==
    IF lines = <<>> THEN <<>>
    ELSE IF Head(lines) # <<>> /\ Head(Head(lines)) = "#" THEN TldsOfLines(Tail(lines))
    ELSE <<ToUppercase(Head(lines)), ToLowercase(Head(lines))>> \o TldsOfLines(Tail(lines))

get_all_tlds == TldsOfLines(tlds_txt)

\* the TLD test at the head of addr_parser
IsDomain(addr_str) ==
    LET pieces             == Split(addr_str, ".")
        domian_guess_split == [i \in DOMAIN pieces |-> Trim(pieces[i])]
        tld                == domian_guess_split[Len(domian_guess_split)]
    IN  tld \in Range(get_all_tlds)

-----------------------------------------------------------------------------
(* TargetParser::parser and its closure addr_parser, src/src/tp.rs *)

\* a variant of RangeTargets that leaves out the end address
RangeTargets_DropLast(addr_str, ports) ==
    LET split_ret == TrimmedNonEmpty(Split(addr_str, "-"))
    IN  IF Len(split_ret) # 2 THEN Ok(<<>>)
        ELSE LET s == ParseIpv4(split_ret[1])
                 e == ParseIpv4(split_ret[2])
             IN  IF ~s.ok \/ ~e.ok THEN Panic("convert to address failed")
                 ELSE LET ips == CrossPool(V4(s.val), V4(e.val))
                      IN  IF ~ips.ok THEN Panic("get cross pool failed")
                          ELSE Ok(WithOrigin(SubSeq(ips.val, 1, Len(ips.val) - 1), ports,
                                             addr_str))

\* the branch `addr_str.contains("-")`: a split into other than two pieces adds nothing
RangeTargets(addr_str, ports) ==
    LET split_ret == TrimmedNonEmpty(Split(addr_str, "-"))
    IN  IF Len(split_ret) # 2 THEN Ok(<<>>)
        ELSE LET start_ip == split_ret[1]
                 end_ip   == split_ret[2]
                 is6      == Contains(start_ip, ":") \/ Contains(end_ip, ":")
                 s        == IF is6 THEN ParseIpv6(start_ip) ELSE ParseIpv4(start_ip)
                 e        == IF is6 THEN ParseIpv6(end_ip) ELSE ParseIpv4(end_ip)
             IN  IF ~s.ok THEN Panic("convert start to address failed")
                 ELSE IF ~e.ok THEN Panic("convert end to address failed")
                 ELSE LET ips == IF is6 THEN CrossPool(V6(s.val), V6(e.val))
                                 ELSE CrossPool(V4(s.val), V4(e.val))
                      IN  IF ~ips.ok THEN Panic("get cross pool failed")
                          ELSE Ok(WithOrigin(ips.val, ports, addr_str))

\* a variant of LiteralTarget that records the token as origin
LiteralTarget_WithOrigin(addrs, addr_str, ports) ==
    LET ip == IF Contains(addr_str, ":") THEN ParseIpv6(addrs) ELSE ParseIpv4(addrs)
    IN  IF ~ip.ok THEN Panic("can not convert target to Ipv4Addr")
        ELSE Ok(WithOrigin(<<IF Contains(addr_str, ":") THEN V6(ip.val) ELSE V4(ip.val)>>,
                           ports, addr_str))

\* the last branch: one literal address, parsed from `addrs`, the parser's whole
\* argument, not from the token `addr_str`
LiteralTarget(addrs, addr_str, ports) ==
    LET ip == IF Contains(addr_str, ":") THEN ParseIpv6(addrs) ELSE ParseIpv4(addrs)
    IN  IF ~ip.ok THEN Panic("can not convert target to Ipv4Addr")
        ELSE Ok(<<TargetNew(IF Contains(addr_str, ":") THEN V6(ip.val) ELSE V4(ip.val), ports)>>)

\* pistol::dns_query: the collaborator's answer for the name, an error for no answer
dns_query(dnsf, name) == IF name \in DOMAIN dnsf THEN dnsf[name] ELSE Panic("dns query failed")

\* a variant of KeepFamily that never reads the preference
KeepFamily_Ipv4Always(query_ret, ipv6_first) ==
    SelectSeq(query_ret, LAMBDA ip : ip.v = 4)

\* the loop over query_ret: IPv4 answers are kept when the preference is off, IPv6
\* answers when it is on
KeepFamily(query_ret, ipv6_first) ==
    SelectSeq(query_ret, LAMBDA ip : IF ip.v = 4 THEN ~ipv6_first ELSE ipv6_first)

\* the branch of a domain name
DomainTargets(addr_str, ports, dnsf, ipv6_first) ==
    LET query_ret == dns_query(dnsf, addr_str)
    IN  IF ~query_ret.ok THEN Panic("dns query failed")
        ELSE Ok(WithOrigin(KeepFamily(query_ret.val, ipv6_first), ports, addr_str))

addr_parser(addrs, addr_str, ports, dnsf, ipv6_first) ==
    IF ~IsDomain(addr_str)
    THEN IF Contains(addr_str, "-") THEN RangeTargets(addr_str, ports)
         ELSE IF Contains(addr_str, "/")
              THEN LET t == FromSubnet(addr_str, ports)
                   IN  IF t.ok THEN t ELSE Panic("get subnet target failed")
         ELSE LiteralTarget(addrs, addr_str, ports)
    ELSE DomainTargets(addr_str, ports, dnsf, ipv6_first)

AddrsSplit(addrs) ==
    IF Contains(addrs, ",") THEN TrimmedNonEmpty(Split(addrs, ",")) ELSE <<addrs>>

\* `for addr_str in addrs_split`: the first panic ends the loop
RECURSIVE AddrsLoop(_, _, _, _, _, _)
AddrsLoop(addrs, addrs_split, ports, dnsf, ipv6_first, acc) ==
    IF addrs_split = <<>> THEN Ok(acc)
    ELSE LET t == addr_parser(addrs, Head(addrs_split), ports, dnsf, ipv6_first)
         IN  IF t.ok
             THEN AddrsLoop(addrs, Tail(addrs_split), ports, dnsf, ipv6_first, acc \o t.val)
             ELSE t

parser(addrs, ports, dnsf, ipv6_first) ==
    IF Len(Trim(addrs)) = 0 THEN Ok(<<>>)
    ELSE LET p == ports_parser(ports)
         IN  IF ~p.ok THEN p
             ELSE AddrsLoop(addrs, AddrsSplit(addrs), p.val, dnsf, ipv6_first, <<>>)

target_from_input(target_addr, target_ports, dnsf, ipv6_first) ==
    parser(target_addr, target_ports, dnsf, ipv6_first)

\* `for line in reader.lines()`: the first panic ends the loop.  After the lines
\* that read well the reader gives the end of the file, or, when the file is broken
\* there, an error: `line.expect("can not read line")`
RECURSIVE LinesLoop(_, _, _, _, _, _)
LinesLoop(lines, broken, target_ports, dnsf, ipv6_first, acc) ==
    IF lines = <<>> THEN IF broken THEN Panic("can not read line") ELSE Ok(acc)
    ELSE LET t == parser(Head(lines), target_ports, dnsf, ipv6_first)
         IN  IF t.ok
             THEN LinesLoop(Tail(lines), broken, target_ports, dnsf, ipv6_first,
                            acc \o t.val)
             ELSE t

\* f: the named file, [given, readable, lines, broken]: File::open succeeds on a
\* readable one; lines are the lines that read well, in order, and broken tells
\* that the read after the last of them fails (bytes that are no UTF-8, or a
\* directory, which opens and has no line that reads)
target_from_file(f, target_ports, dnsf, ipv6_first) ==
    IF ~f.readable THEN Panic("can not open file")
    ELSE LinesLoop(f.lines, f.broken, target_ports, dnsf, ipv6_first, <<>>)

-----------------------------------------------------------------------------
(* The two earlier resolvers: fn target_parser of src/src/main.rs and        *)
(* TargetParser::parser of src/src/target.rs.  Their text is the same,       *)
(* statement by statement: the whole argument is one token.                  *)

\* the characters '0'..='9', '.' and '/'
IPV4_IEGAL_CHARS == Range(Digits) \cup {".", "/"}

\* the characters '0'..='f' of the character table, U+0030 to U+0066, then ':' and
\* '/'.  The backquote, U+0060, cannot be written inside a string and is named by
\* its code point.
IPV6_IEGAL_CHARS ==
    Range(Digits) \cup {":", ";", "<", "=", ">", "?", "@"} \cup Range(UpperCase)
        \cup {"[", "\\", "]", "^", "_", "U+0060"} \cup {"a", "b", "c", "d", "e", "f"}
        \cup {"/"}

\* the loop over target_addr.chars()
AddrJudge(target_addr) ==
    [is_ipv4   |-> \A i \in DOMAIN target_addr : target_addr[i] \in IPV4_IEGAL_CHARS,
     is_ipv6   |-> \A i \in DOMAIN target_addr : target_addr[i] \in IPV6_IEGAL_CHARS,
     is_subnet |-> \E i \in DOMAIN target_addr : target_addr[i] = "/"]

\* the token takes the last branch, "parser as domain name"
OlderIsDomain(target_addr) ==
    LET j == AddrJudge(target_addr)
    IN  ~(j.is_ipv4 /\ ~j.is_ipv6) /\ ~(~j.is_ipv4 /\ j.is_ipv6)

\* the branches of an IPv4 and of an IPv6 token
OlderAddressTargets(target_addr, ports) ==
    LET j == AddrJudge(target_addr)
    IN  IF j.is_subnet
        THEN LET t == FromSubnet(target_addr, ports)
             IN  IF t.ok THEN t ELSE Panic("can not convert subnet to targets")
        ELSE LET ip == IF j.is_ipv4 THEN ParseIpv4(target_addr) ELSE ParseIpv6(target_addr)
             IN  IF ~ip.ok
                 THEN Panic(IF j.is_ipv4 THEN "can not convert target to Ipv4Addr"
                            ELSE "can not convert target to Ipv6Addr")
                 ELSE Ok(<<TargetNew(IF j.is_ipv4 THEN V4(ip.val) ELSE V6(ip.val), ports)>>)

\* Target::from_domain(name, ports) and Target::from_domain6(name, ports): the IPv4,
\* or the IPv6, addresses the name resolves to, each with the name as origin
from_domain(dnsf, name, ports) ==
    LET query_ret == dns_query(dnsf, name)
    IN  IF ~query_ret.ok THEN query_ret
        ELSE Ok(WithOrigin(SelectSeq(query_ret.val, LAMBDA ip : ip.v = 4), ports, name))

from_domain6(dnsf, name, ports) ==
    LET query_ret == dns_query(dnsf, name)
    IN  IF ~query_ret.ok THEN query_ret
        ELSE Ok(WithOrigin(SelectSeq(query_ret.val, LAMBDA ip : ip.v = 6), ports, name))

\* the last branch, under the guard of IPV6_FIRST
OlderDomainTargets(target_addr, ports, dnsf, ipv6_first) ==
    LET t == IF ipv6_first THEN from_domain6(dnsf, target_addr, ports)
             ELSE from_domain(dnsf, target_addr, ports)
    IN  IF t.ok THEN t ELSE Panic("convert domain to target failed")

\* the Option<Vec<u16>> of the earlier port parsers as the port list of a target
PortsOfOption(r) == IF r.some THEN r.val ELSE <<>>

\* fn target_parser of src/src/main.rs: the judgement of the characters, the ports,
\* then one of the three branches
main_target_parser(target_addr, target_ports, dnsf, ipv6_first) ==
    LET p == main_ports_parser(target_ports)
    IN  IF ~p.ok THEN p
        ELSE IF OlderIsDomain(target_addr)
        THEN OlderDomainTargets(target_addr, PortsOfOption(p.val), dnsf, ipv6_first)
        ELSE OlderAddressTargets(target_addr, PortsOfOption(p.val))

\* fn target_from_input of src/src/main.rs
main_target_from_input(target_addr, target_ports, dnsf, ipv6_first) ==
    main_target_parser(target_addr, target_ports, dnsf, ipv6_first)

\* the loop of fn target_from_file of src/src/main.rs: every line is a token, a
\* blank one too
RECURSIVE main_LinesLoop(_, _, _, _, _, _)
main_LinesLoop(lines, broken, target_ports, dnsf, ipv6_first, ret) ==
    IF lines = <<>> THEN IF broken THEN Panic("can not read line") ELSE Ok(ret)
    ELSE LET t == main_target_parser(Head(lines), target_ports, dnsf, ipv6_first)
         IN  IF t.ok
             THEN main_LinesLoop(Tail(lines), broken, target_ports, dnsf, ipv6_first,
                                 ret \o t.val)
             ELSE t

\* fn target_from_file of src/src/main.rs
main_target_from_file(f, target_ports, dnsf, ipv6_first) ==
    IF ~f.readable THEN Panic("can not open file")
    ELSE main_LinesLoop(f.lines, f.broken, target_ports, dnsf, ipv6_first, <<>>)

-----------------------------------------------------------------------------
(* std::collections::BTreeMap: the entries [k, v] in ascending key order *)

\* a variant of BTreeInsert that keeps the entries in the order of their first insert
BTreeInsert_Unsorted(m, k, v) ==
    IF \E i \in DOMAIN m : m[i].k = k
    THEN [i \in DOMAIN m |-> IF m[i].k = k THEN [k |-> k, v |-> v] ELSE m[i]]
    ELSE Append(m, [k |-> k, v |-> v])

\* BTreeMap<IpAddr, _>::insert: the value of a key already present is replaced
BTreeInsert(m, k, v) ==
    IF \E i \in DOMAIN m : m[i].k = k
    THEN [i \in DOMAIN m |-> IF m[i].k = k THEN [k |-> k, v |-> v] ELSE m[i]]
    ELSE SelectSeq(m, LAMBDA e : AddrLess(e.k, k)) \o <<[k |-> k, v |-> v]>>
         \o SelectSeq(m, LAMBDA e : AddrLess(k, e.k))

\* BTreeMap<u16, _>::insert
BTreeInsertPort(m, k, v) ==
    IF \E i \in DOMAIN m : m[i].k = k
    THEN [i \in DOMAIN m |-> IF m[i].k = k THEN [k |-> k, v |-> v] ELSE m[i]]
    ELSE SelectSeq(m, LAMBDA e : e.k < k) \o <<[k |-> k, v |-> v]>>
         \o SelectSeq(m, LAMBDA e : k < e.k)

BTreeHas(m, k) == \E i \in DOMAIN m : m[i].k = k
BTreeGet(m, k) == m[CHOOSE i \in DOMAIN m : m[i].k = k].v

\* `for r in reports { btm.insert(r.addr, r.clone()); }`
RECURSIVE InsertByAddr(_, _)
InsertByAddr(btm, reports) ==
    IF reports = <<>> THEN btm
    ELSE InsertByAddr(BTreeInsert(btm, Head(reports).addr, Head(reports)),
                      Tail(reports))

\* port_scanning's loop into the map of maps, src/src/ps.rs
RECURSIVE InsertByAddrPort(_, _)
InsertByAddrPort(btm, reports) ==
    IF reports = <<>> THEN btm
    ELSE LET report   == Head(reports)
             btm_port == IF BTreeHas(btm, report.addr) THEN BTreeGet(btm, report.addr)
                         ELSE <<>>
         IN  InsertByAddrPort(
                 BTreeInsert(btm, report.addr,
                             BTreeInsertPort(btm_port, report.port, report)),
                 Tail(reports))

-----------------------------------------------------------------------------
(* The reports.  A line is the record of what its format string prints; a    *)
(* tail is the words of its format string with the two counts.               *)

HostLine(addr, text, cost, mac, ouis) ==
    [kind |-> "host", addr |-> addr, port |-> 0, text |-> text, cost |-> cost,
     mac |-> mac, ouis |-> ouis, n |-> 0, names |-> <<>>, cpes |-> <<>>]
OtherLine(n, text) ==
    [kind |-> "other", addr |-> V4(<<0, 0, 0, 0>>), port |-> 0, text |-> text, cost |-> 0,
     mac |-> None, ouis |-> "", n |-> n, names |-> <<>>, cpes |-> <<>>]
PortLine(addr, port, protocol, text, cost) ==
    [kind |-> protocol, addr |-> addr, port |-> port, text |-> text, cost |-> cost,
     mac |-> None, ouis |-> "", n |-> 0, names |-> <<>>, cpes |-> <<>>]
OsLine(addr, names, cpes, cost) ==
    [kind |-> "os", addr |-> addr, port |-> 0, text |-> "", cost |-> cost,
     mac |-> None, ouis |-> "", n |-> 0, names |-> names, cpes |-> cpes]

CountTail(total, up, what) ==
    [words |-> <<"pslmap done:", "ip addresses", what, "scanned in", "seconds">>,
     total |-> total, up |-> up]
OsTail == [words |-> <<"pslmap done:", "scanned in", "seconds">>, total |-> 0, up |-> 0]

\* the line "addr -> up(mac)" or "addr -> down" of main.rs: no cost, no vendor
MacLine(addr, text, mac) ==
    [kind |-> "mac", addr |-> addr, port |-> 0, text |-> text, cost |-> 0,
     mac |-> mac, ouis |-> "", n |-> 0, names |-> <<>>, cpes |-> <<>>]

\* the tail of main.rs: "Nmap done: N IP addresses (M hosts up) scanned in S seconds"
NmapTail(total, up) ==
    [words |-> <<"Nmap done:", "IP addresses", "hosts up", "scanned in", "seconds">>,
     total |-> total, up |-> up]

\* fn host_discovery_ping_scan of src/src/main.rs after icmp_ping returned: a line
\* for every address of the map, up or down
host_discovery_ping_scan(tgts, ping_reports) ==
    LET btm      == InsertByAddr(<<>>, ping_reports)
        hosts_up == Len(SelectSeq(btm, LAMBDA e : e.v.status = "Up"))
    IN  [info |-> [i \in DOMAIN btm |->
                      HostLine(btm[i].k, IF btm[i].v.status = "Up" THEN "up" ELSE "down",
                               btm[i].v.cost, None, "")],
         tail |-> NmapTail(Len(tgts), hosts_up)]

\* fn host_discovery_mac_scan of src/src/main.rs after mac_scan returned
host_discovery_mac_scan(tgts, mac_reports) ==
    LET btm      == InsertByAddr(<<>>, mac_reports)
        hosts_up == Len(SelectSeq(btm, LAMBDA e : e.v.mac.some))
    IN  [info |-> [i \in DOMAIN btm |->
                      MacLine(btm[i].k, IF btm[i].v.mac.some THEN "up" ELSE "down",
                              btm[i].v.mac)],
         tail |-> NmapTail(Len(tgts), hosts_up)]

\* a variant of host_discovery_by_ping that gives every host a line of its own
host_discovery_by_ping_ListsDown(tgts, ping_reports) ==
    LET btm      == InsertByAddr(<<>>, ping_reports)
        hosts_up == Len(SelectSeq(btm, LAMBDA e : e.v.status = "Up"))
    IN  [info |-> [i \in DOMAIN btm |->
                      HostLine(btm[i].k, IF btm[i].v.status = "Up" THEN "up" ELSE "down",
                               btm[i].v.cost, None, "")],
         tail |-> CountTail(Len(tgts), hosts_up, "hosts up")]

\* host_discovery_by_ping after the engine returned, src/src/hd.rs
host_discovery_by_ping(tgts, ping_reports) ==
    LET btm          == InsertByAddr(<<>>, ping_reports)
        hosts_up     == Len(SelectSeq(btm, LAMBDA e : e.v.status = "Up"))
        hosts_not_up == Len(SelectSeq(btm, LAMBDA e : e.v.status # "Up"))
        ups          == SelectSeq(btm, LAMBDA e : e.v.status = "Up")
        lines        == [i \in DOMAIN ups |->
                            HostLine(ups[i].k, "up", ups[i].v.cost, None, "")]
    IN  [info |-> IF hosts_not_up > 0 THEN Append(lines, OtherLine(hosts_not_up, "down"))
                  ELSE lines,
         tail |-> CountTail(Len(tgts), hosts_up, "hosts up")]

\* host_discovery_by_mac after the engine returned, src/src/hd.rs
host_discovery_by_mac(tgts, mac_reports) ==
    LET btm          == InsertByAddr(<<>>, mac_reports)
        hosts_up     == Len(SelectSeq(btm, LAMBDA e : e.v.mac.some))
        hosts_not_up == Len(SelectSeq(btm, LAMBDA e : ~e.v.mac.some))
        ups          == SelectSeq(btm, LAMBDA e : e.v.mac.some)
        lines        == [i \in DOMAIN ups |->
                            HostLine(ups[i].k, "up", ups[i].v.cost, ups[i].v.mac,
                                     ups[i].v.ouis)]
    IN  [info |-> IF hosts_not_up > 0 THEN Append(lines, OtherLine(hosts_not_up, "down"))
                  ELSE lines,
         tail |-> CountTail(Len(tgts), hosts_up, "hosts up")]

\* the lines of one address of port_scanning's outer loop
PortLinesOf(addr, btm_port, protocol) ==
    [i \in DOMAIN btm_port |->
        PortLine(addr, btm_port[i].k, protocol, btm_port[i].v.status, btm_port[i].v.cost)]

RECURSIVE PortLines(_, _)
PortLines(btm, protocol) ==
    IF btm = <<>> THEN <<>>
    ELSE PortLinesOf(Head(btm).k, Head(btm).v, protocol) \o PortLines(Tail(btm), protocol)

\* a variant of OpenCount that counts every line
RECURSIVE OpenCount_EveryStatus(_)
OpenCount_EveryStatus(btm) ==
    IF btm = <<>> THEN 0 ELSE Len(Head(btm).v) + OpenCount_EveryStatus(Tail(btm))

RECURSIVE OpenCount(_)
OpenCount(btm) ==
    IF btm = <<>> THEN 0
    ELSE Len(SelectSeq(Head(btm).v, LAMBDA e : e.v.status = "Open")) + OpenCount(Tail(btm))

\* port_scanning after the engine returned, src/src/ps.rs
port_scanning(tgts, port_reports, protocol) ==
    LET btm == InsertByAddrPort(<<>>, port_reports)
    IN  [info |-> PortLines(btm, protocol),
         tail |-> CountTail(Len(tgts), OpenCount(btm), "ports up")]

\* `{}` of pistol's OsDetects: the engine's own rendering of its records, in the
\* order it holds them; one empty line when it holds none
OsDetectsDisplay(os_detects) ==
    IF os_detects = <<>> THEN <<[kind |-> "empty"]>>
    ELSE [i \in DOMAIN os_detects |-> [kind |-> "engine", record |-> os_detects[i]]]

\* os_detection after the engine returned, src/src/od.rs: `println!("{}", ret);`,
\* then the report
os_detection(tgts, os_detects) ==
    LET btm == InsertByAddr(<<>>, os_detects)
    IN  [printed |-> OsDetectsDisplay(os_detects),
         info |-> [i \in DOMAIN btm |->
                      OsLine(btm[i].k,
                             [j \in DOMAIN btm[i].v.detects |-> btm[i].v.detects[j].name],
                             [j \in DOMAIN btm[i].v.detects |-> btm[i].v.detects[j].cpe],
                             btm[i].v.cost)],
         tail |-> OsTail]

-----------------------------------------------------------------------------
(* The inputs: what the user types, composed piece by piece and rendered to  *)
(* the strings the program receives.                                         *)

MaxPortPieces == 3   \* pieces of a port option
MaxTokens     == 2   \* address tokens of a target option, or lines of a file
MaxRecords    == 3   \* records the scanning engine returns
MaxAggTargets == 2   \* targets handed to an aggregator

Pad(s, pad) == IF pad THEN <<" ">> \o s \o <<" ">> ELSE s

\* a port piece: one port, a range, or a raw segment
Single(a, pad)  == [k |-> "single", a |-> a, b |-> a, raw |-> <<>>, pad |-> pad]
PRange(a, b, pad) == [k |-> "range", a |-> a, b |-> b, raw |-> <<>>, pad |-> pad]
PRaw(raw)       == [k |-> "raw", a |-> 0, b |-> 0, raw |-> raw, pad |-> FALSE]

RenderPort(p) ==
    Pad(CASE p.k = "single" -> Dec(p.a)
          [] p.k = "range"  -> Dec(p.a) \o <<"-">> \o Dec(p.b)
          [] OTHER          -> p.raw, p.pad)

RenderPorts(pieces) == Join([i \in DOMAIN pieces |-> RenderPort(pieces[i])], <<",">>)

PortPieces ==
    {Single(0, FALSE), Single(80, FALSE), Single(443, TRUE), Single(65535, FALSE),
     PRange(80, 83, FALSE), PRange(81, 83, TRUE), PRange(65534, 65535, FALSE),
     PRange(83, 80, FALSE), PRange(80, 80, FALSE),
     PRaw(<<"8", "0", "-">>), PRaw(<<"-", "8", "0">>),
     PRaw(<<"1", "-", "2", "-", "3">>), PRaw(<<"a", "b", "c">>),
     PRaw(<<"6", "5", "5", "3", "6">>)}

SeqsUpTo(S, n) == UNION {[1..m -> S] : m \in 0..n}

\* an address piece: a literal, a range, a subnet, a domain name or a raw token
Lit(ip)         == [k |-> "lit", a |-> ip, b |-> ip, p |-> 0, raw |-> <<>>]
ARange(a, b)    == [k |-> "range", a |-> a, b |-> b, p |-> 0, raw |-> <<>>]
Subnet(a, p)    == [k |-> "subnet", a |-> a, b |-> a, p |-> p, raw |-> <<>>]
Domain(name)    == [k |-> "domain", a |-> V4(<<0, 0, 0, 0>>), b |-> V4(<<0, 0, 0, 0>>),
                    p |-> 0, raw |-> name]
ARaw(raw)       == [k |-> "raw", a |-> V4(<<0, 0, 0, 0>>), b |-> V4(<<0, 0, 0, 0>>),
                    p |-> 0, raw |-> raw]

\* an address as typed: dotted decimal, or eight hexadecimal groups
RenderIp(ip) ==
    IF ip.v = 4 THEN Join([i \in DOMAIN ip.g |-> Dec(ip.g[i])], <<".">>)
    ELSE Join([i \in DOMAIN ip.g |-> Hex(ip.g[i])], <<":">>)

RenderAddr(t) ==
    CASE t.k = "lit"    -> RenderIp(t.a)
      [] t.k = "range"  -> RenderIp(t.a) \o <<"-">> \o RenderIp(t.b)
      [] t.k = "subnet" -> RenderIp(t.a) \o <<"/">> \o Dec(t.p)
      [] OTHER          -> t.raw

RenderAddrs(pieces) == Join([i \in DOMAIN pieces |-> RenderAddr(pieces[i])], <<",">>)

IpA  == V4(<<10, 0, 0, 1>>)
IpB  == V4(<<10, 0, 0, 2>>)
Ip5  == V4(<<192, 168, 5, 5>>)
Ip7  == V4(<<192, 168, 5, 7>>)
Ip8  == V4(<<192, 168, 5, 8>>)
IpE  == V4(<<10, 0, 0, 255>>)
IpF  == V4(<<10, 0, 1, 0>>)
Ip6A == V6(<<65152, 0, 0, 0, 0, 0, 0, 1>>)
Ip6B == V6(<<65152, 0, 0, 0, 0, 0, 0, 2>>)

NameCom   == <<"a", ".", "c", "o", "m">>
NameNet   == <<"b", ".", "N", "E", "T">>
NameMixed == <<"a", ".", "C", "o", "m">>

AddrPieces ==
    {Lit(IpA), Lit(IpB), Lit(Ip6A),
     ARange(Ip5, Ip8), ARange(Ip7, Ip8), ARange(IpE, IpF), ARange(IpA, IpA),
     ARange(IpB, IpA), ARange(Ip6A, Ip6B),
     Subnet(Ip5, 30),
     Domain(NameCom), Domain(NameNet), Domain(NameMixed),
     ARaw(<<"1", ".", "1", ".", "1", ".", "1", "-", "1", ".", "1", ".", "1", ".", "2",
            "-", "1", ".", "1", ".", "1", ".", "3">>),
     ARaw(<<" ">>), ARaw(<<"x">>), ARaw(<<"f", "\\", "f">>)}

\* the answers of the DNS collaborator for one name: a failure, or addresses in order
DnsAnswers ==
    {Panic("lookup failed"), Ok(<<>>), Ok(<<IpB>>), Ok(<<Ip6B>>),
     Ok(<<IpB, Ip6B, IpA>>), Ok(<<Ip6B, IpA, Ip6A>>)}

DnsNames == {NameCom, NameNet}

\* the spellings a name may be asked under: DNS compares names without regard to
\* case, so a.Com is answered as a.com is
DnsAsked == DnsNames \cup {NameMixed}

\* the world when no name is asked for
DnsQuiet == [n \in DnsAsked |-> Ok(<<IpB, Ip6B, IpA>>)]

\* the worlds main may run in: every answer for the first name, two for the second
DnsWorlds ==
    {[n \in DnsAsked |-> IF ToLowercase(n) = NameCom THEN a ELSE b] :
        a \in DnsAnswers, b \in {Panic("lookup failed"), Ok(<<Ip6A, IpA>>)}}

HasDomain(pieces) == \E i \in DOMAIN pieces : pieces[i].raw \in DnsNames

NoFile == [given |-> FALSE, readable |-> FALSE, lines |-> <<>>, broken |-> FALSE]

\* a file that opens, with the lines that read well
FileOf(lines, broken) ==
    [given |-> TRUE, readable |-> TRUE, lines |-> lines, broken |-> broken]

\* a name that File::open fails on
NoSuchFile == [given |-> TRUE, readable |-> FALSE, lines |-> <<>>, broken |-> FALSE]

\* args.ports is a String, "" when the option is not given
PortsArg == IF args_ports.some THEN args_ports.val ELSE <<>>

\* an f64 as it is typed: NaN, or a sign, a digit and a power of ten, which parses
\* to the nearest f64
F64(neg, mant, exp) == [nan |-> FALSE, neg |-> neg, mant |-> mant, exp |-> exp]
NaN == [nan |-> TRUE, neg |-> FALSE, mant |-> 0, exp |-> 0]

\* `default_value_t = 1.0`
DefaultTimeout == F64(FALSE, 1, 0)

\* the timeouts of the runs: 1.0, -0.5, -2e-324 (which parses to -0.0), -3e-324 (which
\* parses to the negative number nearest to zero), NaN and 1e30
Timeouts ==
    {DefaultTimeout, F64(TRUE, 5, -1), F64(TRUE, 2, -324), F64(TRUE, 3, -324), NaN,
     F64(FALSE, 1, 30)}

\* the port options main is started with
MainPortPieces ==
    {<<>>, <<Single(80, FALSE), Single(443, FALSE)>>, <<PRaw(<<"a", "b", "c">>)>>}

NotCalled == [ok |-> FALSE, val |-> <<>>, err |-> "not called"]
NoneCalled == [main |-> NotCalled, target |-> NotCalled]

\* Mutex::new(false): not held, not poisoned; acquired counts the guards handed out
Unlocked == [held |-> FALSE, poisoned |-> FALSE, acquired |-> 0]
NoTail    == [words |-> <<>>, total |-> 0, up |-> 0]

-----------------------------------------------------------------------------
(* A direct call of TargetParser::ports_parser, then of the two earlier port  *)
(* parsers on the same string                                                *)

InitPorts ==
    /\ port_pieces \in SeqsUpTo(PortPieces, MaxPortPieces)
    /\ args_ports \in IF port_pieces = <<>>
                      THEN {None, Some(<<>>), Some(<<" ", " ">>), Some(<<"\t">>),
                            Some(<<" ", "U+3000">>)}
                      ELSE {Some(RenderPorts(port_pieces)),
                            Some(RenderPorts(port_pieces) \o <<",">>)}
    /\ addr_pieces = <<>> /\ args_target = <<>> /\ file = NoFile /\ args_ipv6 = FALSE
    /\ args_timeout = DefaultTimeout
    /\ dns = DnsQuiet
    /\ ports_ret = NotCalled /\ older_ret = NoneCalled
    /\ mutex = Unlocked /\ resolver = "tp" /\ todo = <<>>
    /\ IPV6_FIRST = FALSE /\ targets = <<>> /\ err = ""
    /\ pc = "start"
    /\ records = <<>> /\ scan_mode = "none" /\ printed = <<>> /\ info = <<>> /\ tail = NoTail

CallPortsParser ==
    /\ pc = "start"
    /\ ports_ret' = ports_parser(args_ports)
    /\ pc' = "ports_done"
    /\ UNCHANGED <<inVars, lockVars, older_ret, resVars, aggVars>>

\* the same port string handed to the two earlier parsers, which take a &str
CallOlderPortsParsers ==
    /\ pc = "ports_done"
    /\ args_ports.some
    /\ older_ret' = [main   |-> main_ports_parser(args_ports.val),
                     target |-> target_ports_parser(args_ports.val)]
    /\ pc' = "older_done"
    /\ UNCHANGED <<inVars, lockVars, ports_ret, resVars, aggVars>>

NextPorts ==
    \/ CallPortsParser
    \/ CallOlderPortsParsers

SpecPorts == InitPorts /\ [][NextPorts]_vars

-----------------------------------------------------------------------------
(* A direct call of an entry point of TargetParser, src/src/tp.rs:            *)
(* target_from_input on an address string, or target_from_file on a file     *)
(* name.  IPV6_FIRST, which tp.rs takes from the crate root, holds false as   *)
(* constructed or true as written at startup.                                 *)

\* main is given an address string and a file name as well, one that cannot be
\* opened or cannot be read
TargetAndFile(pieces) ==
    /\ port_pieces \in MainPortPieces
    /\ args_ports = IF port_pieces = <<>> THEN None
                    ELSE Some(RenderPorts(port_pieces))
    /\ addr_pieces \in [1..1 -> pieces]
    /\ args_target = RenderAddrs(addr_pieces)
    /\ file \in {NoSuchFile, FileOf(<<>>, TRUE)}
    /\ dns \in IF HasDomain(addr_pieces) THEN DnsWorlds ELSE {DnsQuiet}

\* the inputs of a resolver: the ports option, the tokens, and the address string
\* or the file they are given in
ResolverInputs ==
    /\ port_pieces \in MainPortPieces
    /\ args_ports = IF port_pieces = <<>> THEN None
                    ELSE Some(RenderPorts(port_pieces))
    /\ addr_pieces \in SeqsUpTo(AddrPieces, MaxTokens)
    /\ \/ /\ args_target = RenderAddrs(addr_pieces)
          /\ file = NoFile
       \/ /\ args_target = <<>>
          /\ file = FileOf([i \in DOMAIN addr_pieces |-> RenderAddr(addr_pieces[i])],
                           FALSE)
       \/ /\ Len(addr_pieces) <= 1
          /\ args_target = <<>>
          /\ file = FileOf([i \in DOMAIN addr_pieces |-> RenderAddr(addr_pieces[i])],
                           TRUE)
       \/ /\ addr_pieces = <<>>
          /\ args_target = <<>>
          /\ file = NoSuchFile
    /\ dns \in IF HasDomain(addr_pieces) THEN DnsWorlds ELSE {DnsQuiet}

InitTp ==
    /\ ResolverInputs
    /\ args_ipv6 = FALSE /\ args_timeout = DefaultTimeout
    /\ ports_ret = NotCalled /\ older_ret = NoneCalled
    /\ mutex = Unlocked /\ resolver = "tp" /\ todo = <<>>
    /\ IPV6_FIRST \in BOOLEAN /\ targets = <<>> /\ err = ""
    /\ pc = "call"
    /\ records = <<>> /\ scan_mode = "none" /\ printed = <<>> /\ info = <<>> /\ tail = NoTail

\* the return of an entry point, or its panic
Returned(r) ==
    IF r.ok
    THEN pc' = "returned" /\ targets' = r.val /\ err' = err
    ELSE pc' = "panicked" /\ targets' = targets /\ err' = r.err

\* TargetParser::target_from_input(target_addr, target_ports)
CallTargetFromInput ==
    /\ pc = "call"
    /\ ~file.given
    /\ Returned(target_from_input(args_target, args_ports, dns, IPV6_FIRST))
    /\ UNCHANGED <<inVars, lockVars, ports_ret, older_ret, IPV6_FIRST, aggVars>>

\* TargetParser::target_from_file(filename, target_ports)
CallTargetFromFile ==
    /\ pc = "call"
    /\ file.given
    /\ Returned(target_from_file(file, args_ports, dns, IPV6_FIRST))
    /\ UNCHANGED <<inVars, lockVars, ports_ret, older_ret, IPV6_FIRST, aggVars>>

NextTp ==
    \/ CallTargetFromInput
    \/ CallTargetFromFile

SpecTp == InitTp /\ [][NextTp]_vars

-----------------------------------------------------------------------------
(* A run of the program from the command line: the steps of main,            *)
(* src/src/main.rs, up to the check of the target list.  main calls the      *)
(* target_from_input and target_from_file of main.rs itself.                 *)

InitMain ==
    /\ ResolverInputs \/ TargetAndFile(AddrPieces)
    /\ args_ipv6 \in BOOLEAN /\ args_timeout = DefaultTimeout
    /\ ports_ret = NotCalled /\ older_ret = NoneCalled
    /\ mutex = Unlocked /\ resolver = "main" /\ todo = <<>>
    /\ IPV6_FIRST = FALSE /\ targets = <<>> /\ err = ""
    /\ pc = "start"
    /\ records = <<>> /\ scan_mode = "none" /\ printed = <<>> /\ info = <<>> /\ tail = NoTail

\* `if args.ipv6 { *IPV6_FIRST.lock() = true; }`
SetIpv6First ==
    /\ pc = "start"
    /\ IPV6_FIRST' = IF args_ipv6 THEN TRUE ELSE IPV6_FIRST
    /\ pc' = "resolve"
    /\ UNCHANGED <<inVars, lockVars, ports_ret, older_ret, targets, err, aggVars>>

\* what main does with a resolver's return: extend the list, or die of its panic
Resolved(r) ==
    IF r.ok
    THEN /\ targets' = targets \o r.val
         /\ pc' = "check"
         /\ err' = err
    ELSE /\ pc' = "panicked"
         /\ err' = r.err
         /\ targets' = targets

\* `if args.target.len() > 0`
TargetFromInput ==
    /\ pc = "resolve"
    /\ Len(args_target) > 0
    /\ Resolved(main_target_from_input(args_target, PortsArg, dns, IPV6_FIRST))
    /\ UNCHANGED <<inVars, lockVars, ports_ret, older_ret, IPV6_FIRST, aggVars>>

\* `else if args.filename.len() > 0`
TargetFromFile ==
    /\ pc = "resolve"
    /\ Len(args_target) = 0
    /\ file.given
    /\ Resolved(main_target_from_file(file, PortsArg, dns, IPV6_FIRST))
    /\ UNCHANGED <<inVars, lockVars, ports_ret, older_ret, IPV6_FIRST, aggVars>>

\* `else { panic!("please set target first") }`
NoTargetGiven ==
    /\ pc = "resolve" /\ resolver = "main"
    /\ Len(args_target) = 0
    /\ ~file.given
    /\ pc' = "panicked"
    /\ err' = "please set target first"
    /\ UNCHANGED <<inVars, lockVars, ports_ret, older_ret, IPV6_FIRST, targets, aggVars>>

\* a variant of CheckTargets that writes the preference after the resolution
CheckTargets_ResetsPreference ==
    /\ pc = "check"
    /\ IF Len(targets) = 0
       THEN pc' = "panicked" /\ err' = "unable to parse the target"
       ELSE pc' = "scan" /\ err' = err
    /\ IPV6_FIRST' = FALSE
    /\ UNCHANGED <<inVars, lockVars, ports_ret, older_ret, targets, aggVars>>

\* `if targets.len() == 0 { panic!("unable to parse the target") }`
CheckTargets ==
    /\ pc = "check"
    /\ IF Len(targets) = 0
       THEN pc' = "panicked" /\ err' = "unable to parse the target"
       ELSE pc' = "scan" /\ err' = err
    /\ UNCHANGED <<inVars, lockVars, ports_ret, older_ret, IPV6_FIRST, targets, aggVars>>

Next ==
    \/ SetIpv6First
    \/ TargetFromInput
    \/ TargetFromFile
    \/ NoTargetGiven
    \/ CheckTargets

Spec == InitMain /\ [][Next]_vars

-----------------------------------------------------------------------------
(* The mutex around IPV6_FIRST, statement by statement where it is taken and   *)
(* released, under each of the three resolvers the repository carries: the    *)
(* run of main with target_parser of src/src/main.rs, and a direct call of    *)
(* an entry point of TargetParser of src/src/tp.rs and of TargetParser of     *)
(* src/src/target.rs, both of which take IPV6_FIRST from the crate root.  A   *)
(* guard lives to the end of the block that declares it; a panic drops it and *)
(* poisons the mutex.  Mutex::lock on a mutex the thread already holds does   *)
(* not return.                                                                *)

Resolvers == {"tp", "main", "target"}

\* the tokens the runs of this section are started with
LockPieces ==
    {Domain(NameCom), Domain(NameNet), Lit(IpA), Lit(Ip6A), ARaw(<<"x">>), ARaw(<<" ">>),
     ARaw(<<"f", "\\", "f">>)}

InitLock ==
    /\ resolver \in Resolvers
    /\ port_pieces \in MainPortPieces
    /\ args_ports = IF port_pieces = <<>> THEN None
                    ELSE Some(RenderPorts(port_pieces))
    /\ addr_pieces \in SeqsUpTo(LockPieces, MaxTokens)
    /\ \/ /\ resolver = "main" /\ Len(addr_pieces) = 1
          /\ args_target = RenderAddrs(addr_pieces)
          /\ file \in {NoSuchFile, FileOf(<<>>, TRUE)}
       \/ /\ args_target = RenderAddrs(addr_pieces)
          /\ file = NoFile
       \/ /\ args_target = <<>>
          /\ file = FileOf([i \in DOMAIN addr_pieces |-> RenderAddr(addr_pieces[i])],
                           FALSE)
       \/ /\ Len(addr_pieces) <= 1
          /\ args_target = <<>>
          /\ file = FileOf([i \in DOMAIN addr_pieces |-> RenderAddr(addr_pieces[i])],
                           TRUE)
       \/ /\ addr_pieces = <<>>
          /\ args_target = <<>>
          /\ file = NoSuchFile
    /\ dns \in IF HasDomain(addr_pieces) THEN DnsWorlds ELSE {DnsQuiet}
    /\ ports_ret = NotCalled /\ older_ret = NoneCalled
    /\ mutex = Unlocked /\ todo = <<>> /\ args_timeout = DefaultTimeout
    /\ \/ /\ resolver = "main"
          /\ args_ipv6 \in BOOLEAN /\ IPV6_FIRST = FALSE
          /\ pc = "start"
       \/ /\ resolver # "main"
          /\ args_ipv6 = FALSE /\ IPV6_FIRST \in BOOLEAN
          /\ pc = "resolve"
    /\ targets = <<>> /\ err = ""
    /\ records = <<>> /\ scan_mode = "none" /\ printed = <<>> /\ info = <<>> /\ tail = NoTail

\* IPV6_FIRST.lock().expect(msg): the call does not return when the thread holds the
\* mutex, fails when the mutex is poisoned, and hands out the guard otherwise
Lock(locked, msg) ==
    IF mutex.held
    THEN pc' = "blocked" /\ mutex' = mutex /\ err' = err
    ELSE IF mutex.poisoned
    THEN pc' = "panicked" /\ mutex' = mutex /\ err' = msg
    ELSE /\ mutex' = [mutex EXCEPT !.held = TRUE, !.acquired = @ + 1]
         /\ pc' = locked
         /\ err' = err

\* the guard's block ends
Release(m) == [m EXCEPT !.held = FALSE]

\* a panic under the guard: unwinding drops the guard and poisons the mutex
ReleaseInPanic(m) == [m EXCEPT !.held = FALSE, !.poisoned = TRUE]

\* `if args.ipv6 {` is not taken
SkipIpv6First ==
    /\ pc = "start" /\ ~args_ipv6
    /\ pc' = "resolve"
    /\ UNCHANGED <<inVars, lockVars, ports_ret, older_ret, resVars, aggVars>>

\* `let mut ipv6_first = IPV6_FIRST.lock().expect(..);`
LockInMain ==
    /\ pc = "start" /\ args_ipv6
    /\ Lock("main_locked", "try lock IPV6_FIRST failed")
    /\ UNCHANGED <<inVars, resolver, todo, ports_ret, older_ret, IPV6_FIRST, targets, aggVars>>

\* `(*ipv6_first) = true;`
WriteInMain ==
    /\ pc = "main_locked"
    /\ IPV6_FIRST' = TRUE
    /\ pc' = "main_drop"
    /\ UNCHANGED <<inVars, lockVars, ports_ret, older_ret, targets, err, aggVars>>

\* a variant of DropGuardInMain whose guard outlives the block
DropGuardInMain_KeepsGuard ==
    /\ pc = "main_drop"
    /\ pc' = "resolve"
    /\ UNCHANGED <<inVars, lockVars, ports_ret, older_ret, resVars, aggVars>>

\* the `}` of `if args.ipv6 {`: the guard goes out of scope
DropGuardInMain ==
    /\ pc = "main_drop"
    /\ mutex' = Release(mutex)
    /\ pc' = "resolve"
    /\ UNCHANGED <<inVars, resolver, todo, ports_ret, older_ret, resVars, aggVars>>

\* the tokens one call of a resolver's parser works through, each with the call's
\* argument: tp.rs splits at the commas and returns at once for a blank argument,
\* the earlier two take the argument whole
WorkOfCall(res, addrs) ==
    IF res = "tp"
    THEN IF Len(Trim(addrs)) = 0 THEN <<>>
         ELSE LET addrs_split == AddrsSplit(addrs)
              IN  [i \in DOMAIN addrs_split |->
                      [addrs |-> addrs, addr_str |-> addrs_split[i]]]
    ELSE <<[addrs |-> addrs, addr_str |-> addrs]>>

Work(res, calls) == Flatten([i \in DOMAIN calls |-> WorkOfCall(res, calls[i])])

\* the port list a resolver hands to its targets
PortsFor(res, ports) ==
    IF res = "tp" THEN ports_parser(ports)
    ELSE LET str == IF ports.some THEN ports.val ELSE <<>>
             r   == IF res = "main" THEN main_ports_parser(str)
                    ELSE target_ports_parser(str)
         IN  IF r.ok THEN Ok(IF r.val.some THEN r.val.val ELSE <<>>) ELSE r

\* the call comes to its port parser: tp.rs returns before it when the argument is
\* blank, `if addrs.trim().len() == 0 { return Vec::new(); }`, and parses the ports
\* before it splits the argument; the earlier two parse them in every call
ParsesPorts(res, addrs) == res # "tp" \/ Len(Trim(addrs)) > 0

\* the resolver is entered: the ports are parsed by the first call that comes to its
\* port parser, before any token is resolved
Begin(calls) ==
    LET work == Work(resolver, calls)
        p    == PortsFor(resolver, args_ports)
    IN  IF \A i \in DOMAIN calls : ~ParsesPorts(resolver, calls[i])
        THEN pc' = "token" /\ todo' = work /\ ports_ret' = ports_ret /\ err' = err
        ELSE IF ~p.ok
        THEN pc' = "panicked" /\ todo' = <<>> /\ ports_ret' = p /\ err' = p.err
        ELSE pc' = "token" /\ todo' = work /\ ports_ret' = p /\ err' = err

\* the file is read: by main when no address string is given, `if args.target.len()
\* > 0 { .. } else if args.filename.len() > 0 {`, by a direct call of target_from_file
ReadsFile == file.given /\ (resolver = "main" => Len(args_target) = 0)

\* `if args.target.len() > 0 { let t = target_from_input(..);` in main; a direct
\* call takes any address string
BeginFromInput ==
    /\ pc = "resolve"
    /\ IF resolver = "main" THEN Len(args_target) > 0 ELSE ~file.given
    /\ Begin(<<args_target>>)
    /\ UNCHANGED <<inVars, mutex, resolver, older_ret, IPV6_FIRST, targets, aggVars>>

\* `else if args.filename.len() > 0 { let t = target_from_file(..);` in main
BeginFromFile ==
    /\ pc = "resolve"
    /\ ReadsFile
    /\ IF file.readable THEN Begin(file.lines)
       ELSE /\ pc' = "panicked" /\ err' = "can not open file"
            /\ UNCHANGED <<todo, ports_ret>>
    /\ UNCHANGED <<inVars, mutex, resolver, older_ret, IPV6_FIRST, targets, aggVars>>

\* the head of the work list is resolved through the branch "domain name"
TokenIsDomain ==
    IF resolver = "tp" THEN IsDomain(Head(todo).addr_str)
    ELSE OlderIsDomain(Head(todo).addr_str)

\* a token that is no domain name: no lock is taken
ResolveAddress ==
    /\ pc = "token" /\ todo # <<>> /\ ~TokenIsDomain
    /\ LET t == IF resolver = "tp"
                THEN addr_parser(Head(todo).addrs, Head(todo).addr_str, ports_ret.val,
                                 dns, IPV6_FIRST)
                ELSE OlderAddressTargets(Head(todo).addr_str, ports_ret.val)
       IN  IF t.ok
           THEN pc' = "token" /\ targets' = targets \o t.val /\ todo' = Tail(todo)
                /\ err' = err
           ELSE pc' = "panicked" /\ targets' = targets /\ todo' = todo /\ err' = t.err
    /\ UNCHANGED <<inVars, mutex, resolver, ports_ret, older_ret, IPV6_FIRST, aggVars>>

\* a domain token before the lock: tp.rs asks the DNS first, `dns_query(addr_str)
\* .expect(..)`; the earlier two go straight to the lock
BeforeLock ==
    /\ pc = "token" /\ todo # <<>> /\ TokenIsDomain
    /\ IF resolver = "tp" /\ ~dns_query(dns, Head(todo).addr_str).ok
       THEN pc' = "panicked" /\ err' = "dns query failed"
       ELSE pc' = "lock" /\ err' = err
    /\ UNCHANGED <<inVars, lockVars, ports_ret, older_ret, IPV6_FIRST, targets, aggVars>>

\* `let ipv6_first = IPV6_FIRST.lock().expect(..);`: "lock IPV6_FIRST failed" in
\* tp.rs, "try lock IPV6_FIRST failed" in the earlier two
LockInResolver ==
    /\ pc = "lock"
    /\ Lock("locked", IF resolver = "tp" THEN "lock IPV6_FIRST failed"
                      ELSE "try lock IPV6_FIRST failed")
    /\ UNCHANGED <<inVars, resolver, todo, ports_ret, older_ret, IPV6_FIRST, targets, aggVars>>

\* the statements under the guard: tp.rs keeps the answers of the preferred family,
\* the earlier two call Target::from_domain or Target::from_domain6, which may fail
UnderGuard ==
    /\ pc = "locked"
    /\ LET name == Head(todo).addr_str
           t    == IF resolver = "tp"
                   THEN DomainTargets(name, ports_ret.val, dns, IPV6_FIRST)
                   ELSE OlderDomainTargets(name, ports_ret.val, dns, IPV6_FIRST)
       IN  IF t.ok
           THEN pc' = "drop" /\ targets' = targets \o t.val /\ mutex' = mutex /\ err' = err
           ELSE /\ pc' = "panicked" /\ targets' = targets /\ err' = t.err
                /\ mutex' = ReleaseInPanic(mutex)
    /\ UNCHANGED <<inVars, resolver, todo, ports_ret, older_ret, IPV6_FIRST, aggVars>>

\* the end of the branch's block: the guard goes out of scope, the token is done
DropGuardInResolver ==
    /\ pc = "drop"
    /\ mutex' = Release(mutex)
    /\ todo' = Tail(todo)
    /\ pc' = "token"
    /\ UNCHANGED <<inVars, resolver, ports_ret, older_ret, resVars, aggVars>>

\* the tokens are done: when the file was read and is broken, the read after its
\* last line fails, `line.expect("can not read line")`; otherwise the resolver
\* returns, in main to `targets.extend(t);`
ResolverReturns ==
    /\ pc = "token" /\ todo = <<>>
    /\ IF ReadsFile /\ file.broken
       THEN pc' = "panicked" /\ err' = "can not read line"
       ELSE pc' = (IF resolver = "main" THEN "check" ELSE "returned") /\ err' = err
    /\ UNCHANGED <<inVars, lockVars, ports_ret, older_ret, IPV6_FIRST, targets, aggVars>>

NextLock ==
    \/ SkipIpv6First
    \/ LockInMain
    \/ WriteInMain
    \/ DropGuardInMain
    \/ BeginFromInput
    \/ BeginFromFile
    \/ NoTargetGiven
    \/ ResolveAddress
    \/ BeforeLock
    \/ LockInResolver
    \/ UnderGuard
    \/ DropGuardInResolver
    \/ ResolverReturns
    \/ CheckTargets

SpecLock == InitLock /\ [][NextLock]_vars

-----------------------------------------------------------------------------
(* The aggregators: a function is called on a target list with a timeout; it *)
(* starts the engine, converts the timeout and calls the engine, and panics   *)
(* where one of these fails; otherwise the engine returns its records, in an  *)
(* order of its own, and the report is built from them                        *)

Ip10 == V4(<<10, 0, 0, 10>>)

AggAddrs == <<IpB, Ip10, Ip6A>>

Rec(addr, port, status, mac, ouis, detects) ==
    [addr |-> addr, port |-> port, status |-> status, cost |-> 50,
     mac |-> mac, ouis |-> ouis, detects |-> detects]

\* pistol's PingReport, MacReport, PortReport and OsDetect, as the engine may return them
PingRecords ==
    {Rec(a, 0, s, None, "", <<>>) : a \in Range(AggAddrs), s \in {"Up", "Down", "Error"}}
MacRecords ==
    {Rec(a, 0, "", None, "", <<>>) : a \in Range(AggAddrs)}
    \cup {Rec(a, 0, "", Some(<<"aa", "bb", "cc", "dd", "ee", "ff">>), "vendor", <<>>) : a \in Range(AggAddrs)}
PortRecords ==
    {Rec(a, p, s, None, "", <<>>) : a \in {IpB, Ip6A}, p \in {80, 443}, s \in {"Open", "Filtered"}}
OsRecords ==
    {Rec(a, 0, "", None, "", d) : a \in Range(AggAddrs),
        d \in {<<>>, <<[name |-> "Linux", cpe |-> "cpe:/o:linux:linux_kernel"]>>}}

RecordsOf(mode) ==
    CASE mode = "ping" -> PingRecords
      [] mode = "mac"  -> MacRecords
      [] mode = "pingscan" -> PingRecords
      [] mode = "macscan"  -> MacRecords
      [] mode = "tcp"  -> PortRecords
      [] mode = "udp"  -> PortRecords
      [] OTHER         -> OsRecords

\* the functions of hd.rs, ps.rs and od.rs, called on a target list
ScanModes == {"ping", "mac", "tcp", "udp", "os"}

\* the scans main starts, `if args.pingscan { .. } else if args.macscan { .. }`,
\* on the target list that passed its check
MainScanModes == {"pingscan", "macscan"}

InitAgg ==
    /\ port_pieces = <<>> /\ args_ports = None
    /\ addr_pieces = <<>> /\ args_target = <<>> /\ file = NoFile /\ args_ipv6 = FALSE
    /\ args_timeout \in Timeouts
    /\ dns = DnsQuiet
    /\ ports_ret = NotCalled /\ older_ret = NoneCalled
    /\ mutex = Unlocked /\ resolver = "tp" /\ todo = <<>>
    /\ IPV6_FIRST = FALSE /\ err = ""
    /\ \E addrs \in SeqsUpTo(Range(AggAddrs), MaxAggTargets) :
          targets = [i \in DOMAIN addrs |-> TargetNew(addrs[i], <<>>)]
    /\ pc = "scan"
    /\ records = <<>> /\ scan_mode = "none" /\ printed = <<>> /\ info = <<>> /\ tail = NoTail

\* the typed number parses to zero, 0.0 or -0.0: its digit is 0, or it lies nearer to
\* zero than to the f64 nearest to zero, 2^-1074: below 2^-1075, about 2.47e-324
ParsesToZero(t) == t.mant = 0 \/ t.exp < -324 \/ (t.exp = -324 /\ t.mant <= 2)

\* Duration::from_secs_f64(timeout): panics on a value below zero (`secs < 0.0`, which
\* -0.0 is not), on NaN and on a value of 2^64 seconds or more
from_secs_f64(t) ==
    IF ~t.nan /\ t.neg /\ ~ParsesToZero(t)
    THEN Panic("cannot convert float seconds to Duration: value is negative")
    ELSE IF t.nan \/ (t.mant > 0 /\ (t.exp > 19 \/ (t.exp = 19 /\ t.mant >= 2)))
    THEN Panic("cannot convert float seconds to Duration: value is either too big or NaN")
    ELSE Ok(t)

\* the message of the `.expect(..)` on the engine's Result, one for each method of a
\* function
ExpectMessages(mode) ==
    CASE mode = "ping" -> {"icmp echo ping failed", "icmp timestamp ping failed",
                           "icmp address mask ping failed", "tcp syn ping failed",
                           "tcp ack ping failed", "udps ping failed"}
      [] mode = "mac"  -> {"mac scan failed"}
      [] mode = "tcp"  -> {"tcp syn scan failed", "tcp connect scan failed",
                           "tcp fin scan failed", "tcp null scan failed",
                           "tcp xmas scan failed", "tcp ack scan failed",
                           "tcp window scan failed", "tcp maimon scan failed",
                           "tcp idle scan failed"}
      [] mode = "udp"  -> {"udp scan failed"}
      [] mode = "pingscan" -> {"icmp ping failed"}
      [] mode = "macscan"  -> {"mac failed"}
      [] OTHER         -> {"os detect failed"}

\* the functions that can be called on the target list
ModesHere == ScanModes \cup (IF targets = <<>> THEN {} ELSE MainScanModes)

\* the function that was called panics before it has a report
ScanPanics(mode, msg) ==
    /\ scan_mode' = mode
    /\ pc' = "panicked"
    /\ err' = msg
    /\ UNCHANGED <<inVars, lockVars, ports_ret, older_ret, IPV6_FIRST, targets, records,
                   printed, info, tail>>

\* `PistolRunner::init(..).expect("init pistol runner failed")`, the first statement
\* after the clock is read: the engine cannot be started
RunnerInitFails ==
    /\ pc = "scan"
    /\ \E mode \in ModesHere : ScanPanics(mode, "init pistol runner failed")

\* `let timeout = Some(Duration::from_secs_f64(timeout));` after the engine has
\* started
TimeoutPanics ==
    /\ pc = "scan"
    /\ ~from_secs_f64(args_timeout).ok
    /\ \E mode \in ModesHere : ScanPanics(mode, from_secs_f64(args_timeout).err)

\* the engine's call returns an Err: `.expect(..)` panics
EngineFails ==
    /\ pc = "scan"
    /\ from_secs_f64(args_timeout).ok
    /\ \E mode \in ModesHere : \E msg \in ExpectMessages(mode) : ScanPanics(mode, msg)

\* the engine's call returns its report: icmp_echo_ping(..), mac_scan(..),
\* tcp_syn_scan(..), os_detect(..)
EngineReturns ==
    /\ pc = "scan"
    /\ from_secs_f64(args_timeout).ok
    /\ \E mode \in ModesHere :
          /\ scan_mode' = mode
          /\ records' \in SeqsUpTo(RecordsOf(mode), MaxRecords)
    /\ pc' = "aggregate"
    /\ UNCHANGED <<inVars, lockVars, ports_ret, older_ret, resVars, printed, info, tail>>

\* InfoShow::print(&info, &tail)
Reported(report) ==
    /\ info' = report.info
    /\ tail' = report.tail
    /\ printed' = IF scan_mode = "os" THEN report.printed ELSE printed
    /\ pc' = "done"
    /\ UNCHANGED <<inVars, lockVars, ports_ret, older_ret, resVars, records, scan_mode>>

HostDiscoveryByPing ==
    /\ pc = "aggregate" /\ scan_mode = "ping"
    /\ Reported(host_discovery_by_ping(targets, records))

HostDiscoveryByMac ==
    /\ pc = "aggregate" /\ scan_mode = "mac"
    /\ Reported(host_discovery_by_mac(targets, records))

PortScanning ==
    /\ pc = "aggregate" /\ scan_mode \in {"tcp", "udp"}
    /\ Reported(port_scanning(targets, records, scan_mode))

OsDetection ==
    /\ pc = "aggregate" /\ scan_mode = "os"
    /\ Reported(os_detection(targets, records))

\* `if args.pingscan { host_discovery_ping_scan(&targets, args.timeout); }`
HostDiscoveryPingScan ==
    /\ pc = "aggregate" /\ scan_mode = "pingscan"
    /\ Reported(host_discovery_ping_scan(targets, records))

\* `else if args.macscan { host_discovery_mac_scan(&targets, args.timeout); }`
HostDiscoveryMacScan ==
    /\ pc = "aggregate" /\ scan_mode = "macscan"
    /\ Reported(host_discovery_mac_scan(targets, records))

NextAgg ==
    \/ RunnerInitFails
    \/ TimeoutPanics
    \/ EngineFails
    \/ EngineReturns
    \/ HostDiscoveryByPing
    \/ HostDiscoveryByMac
    \/ PortScanning
    \/ OsDetection
    \/ HostDiscoveryPingScan
    \/ HostDiscoveryMacScan

SpecAgg == InitAgg /\ [][NextAgg]_vars

-----------------------------------------------------------------------------
(* What the pieces of an input mean, stated without the parsers *)

ValidPortPiece(p) == p.k = "single" \/ (p.k = "range" /\ p.a < p.b)
ValidPorts(pieces) == \A i \in DOMAIN pieces : ValidPortPiece(pieces[i])

\* the ports a valid piece names: a, or a, a + 1, ..., b
PortsNamed(p) == [j \in 1..(p.b - p.a + 1) |-> p.a + j - 1]
AllPortsNamed(pieces) == Flatten([i \in DOMAIN pieces |-> PortsNamed(pieces[i])])

\* a valid address token: a literal, a subnet, an ascending range, a name of the
\* registry that the DNS answers
ValidAddrPiece(t) ==
    \/ t.k \in {"lit", "subnet"}
    \/ t.k = "range" /\ ~AddrLess(t.b, t.a)
    \/ t.k = "domain" /\ t.raw \in DnsNames /\ dns[t.raw].ok

\* a token that is no address form at all (a blank one is an empty segment)
InvalidAddrPiece(t) == t.k = "raw" /\ Trim(t.raw) # <<>>

\* the entry point of TargetParser that was called has returned or panicked, on an
\* address string or on a file whose every line could be read
AfterResolve == pc \in {"returned", "panicked"} /\ ~file.broken

\* the number of an IPv4 address within its /16
Low16(ip) == ip.g[3] * 256 + ip.g[4]

-----------------------------------------------------------------------------
(* C1 *)

\* C1: the targets of a comma-separated list of valid address tokens, under a valid
\* port spec, are the targets of its tokens one by one, concatenated in input order.
C1_ListIsConcatenation ==
    (/\ AfterResolve /\ ~file.given
     /\ \A i \in DOMAIN addr_pieces : ValidAddrPiece(addr_pieces[i])
     /\ ValidPorts(port_pieces))
    => /\ pc # "panicked"
       /\ LET each == [i \in DOMAIN addr_pieces |->
                          target_from_input(RenderAddr(addr_pieces[i]), args_ports, dns,
                                            IPV6_FIRST)]
          IN  AllOk(each) /\ targets = Flatten(Vals(each))

-----------------------------------------------------------------------------
(* C2 *)

AggregateBy(mode, tgts, recs) ==
    CASE mode = "ping" -> host_discovery_by_ping(tgts, recs)
      [] mode = "mac"  -> host_discovery_by_mac(tgts, recs)
      [] mode = "os"   -> os_detection(tgts, recs)
      [] OTHER         -> port_scanning(tgts, recs, mode)

Shuffles(n) == {p \in [1..n -> 1..n] : \A i, j \in 1..n : p[i] = p[j] => i = j}

\* C2: the report (the lines in their order, and the tail) is the same for every
\* permutation of the engine's record sequence, records of one address (or one
\* address and port) with different status included.
C2_ReportIsOrderIndependent ==
    (pc = "done" /\ scan_mode \in ScanModes) =>
        \A p \in Shuffles(Len(records)) :
            LET report == AggregateBy(scan_mode, targets,
                                      [i \in DOMAIN records |-> records[p[i]]])
            IN  report.info = info /\ report.tail = tail

-----------------------------------------------------------------------------
(* C3 *)

\* C3: for a port spec of valid pieces separated by commas (single ports, and ranges
\* b-c with b < c), ports_parser returns exactly the ports the pieces name, piece by
\* piece in input order: nothing more, nothing less.
C3_ValidSpecGivesNamedPorts ==
    (/\ pc = "ports_done" /\ port_pieces # <<>>
     /\ ValidPorts(port_pieces)
     /\ (Len(port_pieces) > 1 \/ ~port_pieces[1].pad))
    => /\ ports_ret.ok
       /\ ports_ret.val = AllPortsNamed(port_pieces)

C3_Witness ==
    /\ pc = "ports_done"
    /\ port_pieces = <<Single(80, FALSE), PRange(81, 83, TRUE), Single(443, TRUE)>>
    /\ ports_ret = Ok(<<80, 81, 82, 83, 443>>)

-----------------------------------------------------------------------------
(* C4 *)

ReversedRange(p) == p.k = "range" /\ p.a >= p.b

\* C4: a port spec with a range segment whose bounds parse and have start >= end
\* makes ports_parser panic: no port list is returned, and a spec that is only
\* that segment dies of the range-order panic.
C4_ReversedRangePanics ==
    (pc = "ports_done" /\ \E i \in DOMAIN port_pieces : ReversedRange(port_pieces[i]))
    => /\ ~ports_ret.ok
       /\ Len(port_pieces) = 1 => ports_ret.err = "(start) >= (end)"

C4_Witness ==
    /\ pc = "ports_done"
    /\ port_pieces = <<Single(80, FALSE), PRange(80, 80, FALSE)>>
    /\ ports_ret = Panic("(start) >= (end)")

-----------------------------------------------------------------------------
(* C5 *)

\* C5: a port spec with a malformed segment (neither an integer of [0, 65535] nor
\* a well-formed range) makes ports_parser panic: no port list is returned.
C5_MalformedSegmentPanics ==
    (pc = "ports_done" /\ \E i \in DOMAIN port_pieces : port_pieces[i].k = "raw")
    => ~ports_ret.ok

-----------------------------------------------------------------------------
(* C6 *)

\* C6: an input with a token that is no literal, subnet, two-endpoint range or
\* recognized domain name makes the resolver panic: it returns no target list.
C6_InvalidTokenPanics ==
    (AfterResolve /\ \E i \in DOMAIN addr_pieces : InvalidAddrPiece(addr_pieces[i]))
    => pc = "panicked"

-----------------------------------------------------------------------------
(* C7 *)

\* C7: the entry points never return an empty list: when resolution yields no
\* target (a blank address string, a file of blank lines, a domain without an answer
\* of the preferred family) they fail.
C7_EntryPointNeverReturnsEmpty ==
    pc = "returned" => targets # <<>>

-----------------------------------------------------------------------------
(* C8 *)

\* C8: the single token of an IPv4 literal L, under a valid port spec, resolves to
\* exactly one target: address L, the ports of the spec, no origin.
C8_LiteralGivesOneTarget ==
    (/\ AfterResolve
     /\ Len(addr_pieces) = 1 /\ addr_pieces[1].k = "lit" /\ addr_pieces[1].a.v = 4
     /\ ValidPorts(port_pieces))
    => /\ pc # "panicked"
       /\ targets = <<[addr |-> addr_pieces[1].a, ports |-> AllPortsNamed(port_pieces),
                       origin |-> None]>>

C8_Witness ==
    /\ pc = "returned"
    /\ addr_pieces = <<Lit(IpA)>> /\ ~file.given
    /\ targets = <<[addr |-> IpA, ports |-> <<80, 443>>, origin |-> None]>>

-----------------------------------------------------------------------------
(* C9 *)

\* C9: the single token of an IPv4 range A-B with A <= B (within one /16), under a
\* valid port spec, resolves to one target per address A, A + 1, ..., B in that
\* order, each with the range token as origin.
C9_RangeGivesEveryAddress ==
    (/\ AfterResolve
     /\ Len(addr_pieces) = 1 /\ addr_pieces[1].k = "range" /\ addr_pieces[1].a.v = 4
     /\ ~AddrLess(addr_pieces[1].b, addr_pieces[1].a)
     /\ ValidPorts(port_pieces))
    => LET A == addr_pieces[1].a
           B == addr_pieces[1].b
       IN  /\ pc # "panicked"
           /\ Len(targets) = Low16(B) - Low16(A) + 1
           /\ \A i \in DOMAIN targets :
                 /\ targets[i].addr.v = 4
                 /\ SubSeq(targets[i].addr.g, 1, 2) = SubSeq(A.g, 1, 2)
                 /\ Low16(targets[i].addr) = Low16(A) + i - 1
                 /\ targets[i].origin = Some(RenderAddr(addr_pieces[1]))
                 /\ targets[i].ports = AllPortsNamed(port_pieces)

C9_Witness ==
    /\ pc = "returned"
    /\ addr_pieces = <<ARange(Ip5, Ip8)>>
    /\ [i \in DOMAIN targets |-> targets[i].addr]
           = <<Ip5, V4(<<192, 168, 5, 6>>), Ip7, Ip8>>

-----------------------------------------------------------------------------
(* C10 *)

\* C10: the single token of a registry domain name whose DNS query answers, under a
\* valid port spec, resolves to the answered addresses of the preferred family
\* (IPv6 when IPV6_FIRST is true, IPv4 otherwise), in answer order, each with the name as
\* origin; when no answer is of that family the expansion gives no target and does
\* not panic.
C10_DomainKeepsPreferredFamily ==
    (/\ AfterResolve
     /\ Len(addr_pieces) = 1 /\ addr_pieces[1].k = "domain"
     /\ addr_pieces[1].raw \in DnsNames /\ dns[addr_pieces[1].raw].ok
     /\ ValidPorts(port_pieces))
    => LET name   == addr_pieces[1].raw
           family == IF IPV6_FIRST THEN 6 ELSE 4
           kept   == SelectSeq(dns[name].val, LAMBDA ip : ip.v = family)
       IN  /\ pc # "panicked"
           /\ Len(targets) = Len(kept)
           /\ \A i \in DOMAIN targets :
                 targets[i] = [addr |-> kept[i], ports |-> AllPortsNamed(port_pieces),
                               origin |-> Some(name)]

C10_Witness ==
    /\ pc = "returned" /\ IPV6_FIRST
    /\ addr_pieces = <<Domain(NameCom)>>
    /\ dns[NameCom] = Ok(<<Ip6B, IpA, Ip6A>>)
    /\ [i \in DOMAIN targets |-> targets[i].addr] = <<Ip6B, Ip6A>>

-----------------------------------------------------------------------------
(* C11 *)

\* C11: the single token of a name whose last label is a TLD of the registry in any
\* letter case (a.com, b.NET, a.Com), when the DNS answers for it, is classified as a
\* domain and resolved through DNS: the targets are the answers of the preferred
\* family, and no panic occurs.
C11_DomainMatchIgnoresCase ==
    (/\ AfterResolve
     /\ Len(addr_pieces) = 1 /\ addr_pieces[1].k = "domain"
     /\ addr_pieces[1].raw \in DnsAsked /\ dns[addr_pieces[1].raw].ok
     /\ ValidPorts(port_pieces))
    => LET name   == addr_pieces[1].raw
           family == IF IPV6_FIRST THEN 6 ELSE 4
           kept   == SelectSeq(dns[name].val, LAMBDA ip : ip.v = family)
       IN  /\ IsDomain(name)
           /\ pc # "panicked"
           /\ [i \in DOMAIN targets |-> targets[i].addr] = kept

-----------------------------------------------------------------------------
(* C12 *)

Distinct(s) == \A i, j \in DOMAIN s : s[i] = s[j] => i = j

\* C12: the port list ports_parser returns for a spec it accepts names no port twice,
\* also when the spec names a port twice ("80,80") or its pieces overlap ("80-83,80").
C12_PortsAreDistinct ==
    (pc = "ports_done" /\ ports_ret.ok) => Distinct(ports_ret.val)

-----------------------------------------------------------------------------
(* C13 *)

\* an IPv4 range token A-B with A <= B, and the number of addresses it covers
AscendingRange4(t) == t.k = "range" /\ t.a.v = 4 /\ ~AddrLess(t.b, t.a)
RangeSize(t) == Low16(t.b) - Low16(t.a) + 1

\* the j-th address an IPv4 range token covers
NthOfRange(t, j) ==
    V4(<<t.a.g[1], t.a.g[2], (Low16(t.a) + j - 1) \div 256, (Low16(t.a) + j - 1) % 256>>)

\* C13: for valid tokens of a comma list, or lines of a file (literals, subnets,
\* ranges, domains), under a valid port spec, the resolution does not panic and the
\* target list is the targets of the first token, then those of the second, and so
\* on: an address two tokens cover is listed once under each, and nothing is left
\* out or reordered.  The targets of a range, subnet or domain token carry that
\* token as origin, and those of an IPv4 range A-B are the addresses from A to B.
C13_NoCrossTokenDedup ==
    (/\ AfterResolve /\ addr_pieces # <<>>
     /\ \A i \in DOMAIN addr_pieces : ValidAddrPiece(addr_pieces[i])
     /\ ValidPorts(port_pieces))
    => /\ pc # "panicked"
       /\ LET each == [i \in DOMAIN addr_pieces |->
                          target_from_input(RenderAddr(addr_pieces[i]), args_ports, dns,
                                            IPV6_FIRST)]
          IN  /\ AllOk(each)
              /\ targets = Flatten(Vals(each))
              /\ \A i \in DOMAIN addr_pieces :
                    /\ addr_pieces[i].k # "lit"
                          => \A j \in DOMAIN each[i].val :
                                each[i].val[j].origin = Some(RenderAddr(addr_pieces[i]))
                    /\ AscendingRange4(addr_pieces[i])
                          => [j \in DOMAIN each[i].val |-> each[i].val[j].addr]
                                = [j \in 1..RangeSize(addr_pieces[i]) |->
                                      NthOfRange(addr_pieces[i], j)]

-----------------------------------------------------------------------------
(* C14 *)

\* C14: for an absent port option, and for a port string that is empty or made of
\* white space only, ports_parser returns the empty port list and does not panic.
C14_BlankPortsGiveNoPorts ==
    (/\ pc = "ports_done"
     /\ (~args_ports.some
         \/ \A i \in DOMAIN args_ports.val : IsWhitespace(args_ports.val[i])))
    => ports_ret = Ok(<<>>)

C14_Witness ==
    /\ pc = "ports_done"
    /\ args_ports = Some(<<" ", " ">>)
    /\ ports_ret = Ok(<<>>)

-----------------------------------------------------------------------------
(* What a record sequence of the engine says, stated without the aggregators *)

AddrsOf(recs) == {recs[i].addr : i \in DOMAIN recs}
PairsOf(recs) == {<<recs[i].addr, recs[i].port>> : i \in DOMAIN recs}

\* the record that counts for an address, or for an address and port: a map keeps
\* the last one inserted
LastOfAddr(recs, a) ==
    recs[CHOOSE i \in DOMAIN recs :
            recs[i].addr = a /\ \A j \in DOMAIN recs : recs[j].addr = a => j <= i]
LastOfPair(recs, p) ==
    recs[CHOOSE i \in DOMAIN recs :
            /\ <<recs[i].addr, recs[i].port>> = p
            /\ \A j \in DOMAIN recs : <<recs[j].addr, recs[j].port>> = p => j <= i]

\* a host is up: by ping when its status is Up, by MAC when a MAC address came back
HostIsUp(mode, r) == IF mode = "ping" THEN r.status = "Up" ELSE r.mac.some
UpAddrs(mode, recs) == {a \in AddrsOf(recs) : HostIsUp(mode, LastOfAddr(recs, a))}

-----------------------------------------------------------------------------
(* C15 *)

\* C15: the body of a host-discovery report (by ping or by MAC) has exactly one "up"
\* line per address that is up and no line of its own for any other host; when N > 0
\* hosts are not up it ends with the one line "other N hosts -> down", and when none
\* is there is no such line; the tail's hosts-up count is the number of "up" lines.
C15_DownHostsAreCollapsed ==
    (pc = "done" /\ scan_mode \in {"ping", "mac"})
    => LET up       == UpAddrs(scan_mode, records)
           N        == Cardinality(AddrsOf(records) \ up)
           upLines  == SelectSeq(info, LAMBDA l : l.kind = "host")
       IN  /\ Len(upLines) = Cardinality(up)
           /\ {upLines[i].addr : i \in DOMAIN upLines} = up
           /\ \A i \in DOMAIN upLines : upLines[i].text = "up"
           /\ info = IF N > 0 THEN Append(upLines, OtherLine(N, "down")) ELSE upLines
           /\ tail.up = Len(upLines)

C15_Witness ==
    /\ pc = "done" /\ scan_mode = "ping"
    /\ [i \in DOMAIN records |-> records[i].status] = <<"Down", "Up", "Error">>
    /\ Cardinality(AddrsOf(records)) = 3
    /\ Len(info) = 2 /\ info[1].kind = "host" /\ info[2] = OtherLine(2, "down")
    /\ tail.up = 1

-----------------------------------------------------------------------------
(* C16 *)

\* C16: the port-scan report has exactly one line per address and port present in
\* the engine's records, showing the protocol and the status of that pair, and the
\* up-count of its tail is the number of those pairs whose status is Open.
C16_OneLinePerPortOpenCounted ==
    (pc = "done" /\ scan_mode \in {"tcp", "udp"})
    => LET pairs == PairsOf(records)
           open  == {p \in pairs : LastOfPair(records, p).status = "Open"}
       IN  /\ Len(info) = Cardinality(pairs)
           /\ {<<info[i].addr, info[i].port>> : i \in DOMAIN info} = pairs
           /\ \A i \in DOMAIN info :
                 /\ info[i].kind = scan_mode
                 /\ info[i].text = LastOfPair(records, <<info[i].addr, info[i].port>>).status
           /\ tail.up = Cardinality(open)

C16_Witness ==
    /\ pc = "done" /\ scan_mode = "tcp"
    /\ [i \in DOMAIN records |-> records[i].status] = <<"Filtered", "Open", "Filtered">>
    /\ Cardinality(PairsOf(records)) = 3
    /\ Len(info) = 3
    /\ tail.up = 1

-----------------------------------------------------------------------------
(* C17 *)

\* the place of an address in the numeric order, every IPv4 address before every
\* IPv6 address: 10.0.0.2, then 10.0.0.10, then fe80::1
Rank(a) == CHOOSE i \in DOMAIN AggAddrs : AggAddrs[i] = a

\* C17: in every report the lines that show an address are in strictly ascending
\* address order, and in a port-scan report the lines of one address are in strictly
\* ascending port order: no address, or address and port, is on two lines.
C17_LinesAreSorted ==
    pc = "done"
    => LET lines == SelectSeq(info, LAMBDA l : l.kind # "other")
       IN  \A i, j \in DOMAIN lines :
              i < j => \/ Rank(lines[i].addr) < Rank(lines[j].addr)
                       \/ /\ scan_mode \in {"tcp", "udp"}
                          /\ lines[i].addr = lines[j].addr
                          /\ lines[i].port < lines[j].port

C17_Witness ==
    /\ pc = "done" /\ scan_mode = "os"
    /\ [i \in DOMAIN records |-> records[i].addr] = <<Ip6A, Ip10, IpB>>
    /\ [i \in DOMAIN info |-> info[i].addr] = <<IpB, Ip10, Ip6A>>

-----------------------------------------------------------------------------
(* C18 *)

\* C18: the tail of every report (host discovery by ping and by MAC, port scanning,
\* OS detection) states the number of targets ("N ip addresses"), an up-count
\* ("hosts up" or "ports up") and the elapsed seconds of the batch.
C18_TailStatesTotalUpAndTime ==
    (pc = "done" /\ scan_mode \in ScanModes)
    => /\ "ip addresses" \in Range(tail.words) /\ tail.total = Len(targets)
       /\ \E what \in {"hosts up", "ports up"} : what \in Range(tail.words)
       /\ "scanned in" \in Range(tail.words) /\ "seconds" \in Range(tail.words)

-----------------------------------------------------------------------------
(* C19 *)

\* C19: the address input "10.0.0.1,10.0.0.2" with ports "80,443" resolves, without a
\* panic, to the two targets 10.0.0.1 and 10.0.0.2, and the ping records {10.0.0.1: Up},
\* {10.0.0.2: Down} for them give a report with one "up" line for 10.0.0.1, then
\* "other 1 hosts -> down", and a tail of 2 ip addresses and 1 hosts up.
C19_EndToEndTwoLiterals ==
    (/\ AfterResolve /\ ~file.given
     /\ addr_pieces = <<Lit(IpA), Lit(IpB)>>
     /\ port_pieces = <<Single(80, FALSE), Single(443, FALSE)>>)
    => /\ pc # "panicked"
       /\ [i \in DOMAIN targets |-> targets[i].addr] = <<IpA, IpB>>
       /\ LET report == host_discovery_by_ping(targets,
                            <<Rec(IpA, 0, "Up", None, "", <<>>),
                              Rec(IpB, 0, "Down", None, "", <<>>)>>)
          IN  /\ report.info = <<HostLine(IpA, "up", 50, None, ""), OtherLine(1, "down")>>
              /\ report.tail = CountTail(2, 1, "hosts up")

-----------------------------------------------------------------------------
(* C20 *)

\* C20: IPV6_FIRST is written only by the first step of main, before the resolver
\* is called, and never afterwards: no step of the resolution or after it changes
\* it, and from the first resolution call on it holds what --ipv6 says.
C20_PreferenceWrittenOnceAtStartup ==
    /\ [][IPV6_FIRST' # IPV6_FIRST => (pc = "start" /\ pc' = "resolve")]_vars
    /\ [](pc # "start" => IPV6_FIRST = args_ipv6)

C20_Witness ==
    /\ pc = "scan" /\ args_ipv6 /\ IPV6_FIRST
    /\ addr_pieces = <<Domain(NameCom)>>
    /\ Len(targets) > 0 /\ \A i \in DOMAIN targets : targets[i].addr.v = 6

-----------------------------------------------------------------------------
(* C21 *)

\* the engine returned exactly one record per target: every address has as many
\* records as the target list names it
OneRecordPerTarget ==
    /\ Len(records) = Len(targets)
    /\ \A a \in Range(AggAddrs) :
          Len(SelectSeq(records, LAMBDA r : r.addr = a))
              = Len(SelectSeq(targets, LAMBDA t : t.addr = a))

\* the N of the line "other N hosts -> down", 0 when the report has no such line
DownCount(lines) ==
    LET others == SelectSeq(lines, LAMBDA l : l.kind = "other")
    IN  IF others = <<>> THEN 0 ELSE others[1].n

\* C21: in a host-discovery report (by ping or by MAC) built from exactly one record
\* per target, duplicate target addresses allowed, the hosts-up count plus the N of
\* "other N hosts -> down" equals the number of ip addresses the tail states, which
\* is the length of the target list.
C21_CountsAddUpToTotal ==
    (pc = "done" /\ scan_mode \in {"ping", "mac"} /\ OneRecordPerTarget)
    => /\ tail.total = Len(targets)
       /\ tail.up + DownCount(info) = tail.total

-----------------------------------------------------------------------------
(* C22 *)

\* the port list an earlier parser's return stands for: None is the empty list
ListOfOption(r) == IF r.val.some THEN r.val.val ELSE <<>>

\* C22: handed the same port string, ports_parser of main.rs, the closure
\* ports_parser of target.rs and TargetParser::ports_parser of tp.rs either all
\* panic or all return the same port list, None of the earlier two standing for
\* the empty list of tp.rs.
C22_PortParsersAgree ==
    pc = "older_done"
    => \/ ~ports_ret.ok /\ ~older_ret.main.ok /\ ~older_ret.target.ok
       \/ /\ ports_ret.ok /\ older_ret.main.ok /\ older_ret.target.ok
          /\ ListOfOption(older_ret.main) = ports_ret.val
          /\ ListOfOption(older_ret.target) = ports_ret.val

-----------------------------------------------------------------------------
(* C23 *)

\* C23: locking the mutex around IPV6_FIRST never deadlocks.  No call of lock is made
\* while the thread holds the mutex; the guard main takes to set the preference is
\* released before resolution starts; the guard taken for one domain token is released
\* before the next token or file line is resolved, and before the resolver returns;
\* this with each resolver, for every sequence of tokens, with and without --ipv6.
C23_LockNeverBlocks ==
    /\ pc # "blocked"
    /\ pc \in {"start", "lock"} => ~mutex.held
    /\ pc \in {"resolve", "token", "check", "scan", "returned"} => ~mutex.held
    /\ mutex.held <=> pc \in {"main_locked", "main_drop", "locked", "drop"}

\* --ipv6 and a file of two domain lines, resolved by main: three guards taken and
\* released
C23_Witness ==
    /\ pc = "scan" /\ resolver = "main" /\ args_ipv6
    /\ file.given /\ addr_pieces = <<Domain(NameCom), Domain(NameNet)>>
    /\ mutex = [held |-> FALSE, poisoned |-> FALSE, acquired |-> 3]
    /\ [i \in DOMAIN targets |-> targets[i].addr] = <<Ip6B, Ip6A>>

====
